---- MODULE Spec2Model ----
(***************************************************************************)
(* Model of the jira-mcp server's create-ticket tool (src/src/index.ts):   *)
(* the create-ticket handler, the createJiraTicket helper with its         *)
(* product-format retries and its field-removal retry, and the             *)
(* createTicketLink helper.  One handler invocation is modelled; every     *)
(* `await fetch(...)` is a point where the invocation is suspended until   *)
(* the JIRA host answers, and every answer is chosen by the environment.   *)
(* Spec is the whole invocation; SpecBuild is the handler up to its first  *)
(* request over a wider range of configurations; SpecFormat applies the    *)
(* document functions of src/src/jira/formatting.ts to texts; SpecLive is  *)
(* Spec with every await resolved; SpecPair runs two invocations           *)
(* interleaved at their awaits; SpecUpdate, SpecTransition and SpecSteps   *)
(* are one invocation of update-ticket, of transition-ticket               *)
(* (src/src/jira/tools.ts) and of add-test-steps.                          *)
(***************************************************************************)
EXTENDS Integers, Sequences, FiniteSets, TLC

VARIABLES
    env,            \* process.env, read-only configuration
    args,           \* the arguments of the create-ticket invocation
    pc,             \* position of the create-ticket handler
    call,           \* which createJiraTicket call is running: "main", "test", "none"
    cjpc,           \* position inside createJiraTicket
    attempts,       \* requests issued so far by the running createJiraTicket call
    response,       \* createJiraTicket local: the primary response (status, body)
    retryResponse,  \* createJiraTicket local: the latest retry response
    ret,            \* value returned by the createJiraTicket call
    result,         \* handler local: result of the main createJiraTicket call
    testResult,     \* handler local: result of the Test-ticket createJiraTicket call
    linkRequest,    \* the body POSTed to /issueLink, once issued
    issued,         \* number of requests issued so far, per target
    output,         \* the text returned by the handler
    payloadObject,  \* createJiraTicket parameter: the payload object it was given
    parked,         \* the locals of a second create-ticket invocation, suspended
    fmt,            \* a text on its way through the document functions
    upd,            \* an update-ticket invocation
    trn,            \* a transition-ticket invocation
    zts             \* an add-test-steps invocation

vars == <<env, args, pc, call, cjpc, attempts, response, retryResponse, ret,
          result, testResult, linkRequest, issued, output, payloadObject, parked,
          fmt, upd, trn, zts>>

\* the variables of a create-ticket invocation, and those of the other tools
createVars == <<env, args, pc, call, cjpc, attempts, response, retryResponse, ret,
                result, testResult, linkRequest, issued, output, payloadObject,
                parked>>

toolVars == <<upd, trn, zts>>

----------------------------------------------------------------------------
(* JavaScript values *)

\* `undefined`: an unset environment variable, an omitted argument, a missing member
Undefined == "undefined"

\* truthiness of a string-or-undefined value
Truthy(v) == v # Undefined /\ v # ""

\* a || b on string-or-undefined values
OrElse(a, b) == IF Truthy(a) THEN a ELSE b

----------------------------------------------------------------------------
(* Strings that the code inspects character by character.  The messages   *)
(* the server may put in its `errors` map are drawn from FieldMessages;   *)
(* Chars gives the characters of a string, on which toLowerCase and       *)
(* includes are computed.  JIRA's field messages are non-empty texts.     *)

MsgRequiredMixed == "Product is Required"
MsgInvalid       == "Option id 999 is not valid"

FieldMessages == {MsgRequiredMixed, MsgInvalid}

Chars(s) == [i \in 1..Len(s) |-> SubSeq(s, i, i)]

UpperLetters == <<"A","B","C","D","E","F","G","H","I","J","K","L","M",
                  "N","O","P","Q","R","S","T","U","V","W","X","Y","Z">>
LowerLetters == <<"a","b","c","d","e","f","g","h","i","j","k","l","m",
                  "n","o","p","q","r","s","t","u","v","w","x","y","z">>

\* String.prototype.toLowerCase, on a character sequence
toLowerCase(cs) ==
    [i \in DOMAIN cs |->
        IF \E j \in DOMAIN UpperLetters : UpperLetters[j] = cs[i]
        THEN LowerLetters[CHOOSE j \in DOMAIN UpperLetters : UpperLetters[j] = cs[i]]
        ELSE cs[i]]

\* String.prototype.includes, on character sequences
includes(cs, sub) ==
    \E i \in 1..(Len(cs) - Len(sub) + 1) : SubSeq(cs, i, i + Len(sub) - 1) = sub

\* errorMessage.toLowerCase().includes('required')
IncludesRequiredNoCase(msg) == includes(Chars(msg), Chars("required"))

IncludesRequired(msg) == includes(toLowerCase(Chars(msg)), Chars("required"))

\* the characters String.prototype.trim removes
Whitespace == {" ", "\t", "\n", "\r", "\f"}

\* String.prototype.trim
trim(s) ==
    LET inked == {i \in 1..Len(s) : SubSeq(s, i, i) \notin Whitespace}
    IN  IF inked = {} THEN ""
        ELSE SubSeq(s, CHOOSE i \in inked : \A j \in inked : i <= j,
                       CHOOSE i \in inked : \A j \in inked : i >= j)

\* String.prototype.split, for a separator of one character
RECURSIVE split(_, _)
split(s, sep) ==
    LET at == {i \in 1..Len(s) : SubSeq(s, i, i) = sep}
    IN  IF at = {} THEN <<s>>
        ELSE LET first == CHOOSE i \in at : \A j \in at : i <= j
             IN  <<SubSeq(s, 1, first - 1)>> \o split(SubSeq(s, first + 1, Len(s)), sep)

\* String.prototype.startsWith
startsWith(s, prefix) ==
    Len(s) >= Len(prefix) /\ SubSeq(s, 1, Len(prefix)) = prefix

\* String.prototype.substring(start), start counted from 0
substring(s, start) == SubSeq(s, start + 1, Len(s))

----------------------------------------------------------------------------
(* Configuration and arguments *)

JIRA_HOST == "example.atlassian.net"

\* the three product settings and the category field, each set or unset
ProductSettings ==
    [JIRA_PRODUCT_FIELD : {Undefined, "customfield_X"},
     JIRA_PRODUCT_VALUE : {Undefined, "Widget"},
     JIRA_PRODUCT_ID    : {Undefined, "12345"}]

FullProduct ==
    [JIRA_PRODUCT_FIELD |-> "customfield_X",
     JIRA_PRODUCT_VALUE |-> "Widget",
     JIRA_PRODUCT_ID    |-> "12345"]

MakeEnv(product, categoryField, autoCreate, projectKey) ==
    [JIRA_HOST                     |-> JIRA_HOST,
     JIRA_PROJECT_KEY              |-> projectKey,
     AUTO_CREATE_TEST_TICKETS      |-> autoCreate,
     JIRA_PRODUCT_FIELD            |-> product.JIRA_PRODUCT_FIELD,
     JIRA_PRODUCT_VALUE            |-> product.JIRA_PRODUCT_VALUE,
     JIRA_PRODUCT_ID               |-> product.JIRA_PRODUCT_ID,
     JIRA_CATEGORY_FIELD           |-> categoryField,
     USE_ALTERNATE_CATEGORY        |-> Undefined,
     JIRA_DEFAULT_CATEGORY_ID      |-> "20001",
     JIRA_DEFAULT_CATEGORY_VALUE   |-> "Default Category",
     JIRA_ALTERNATE_CATEGORY_ID    |-> "20002",
     JIRA_ALTERNATE_CATEGORY_VALUE |-> "Alternate Category",
     JIRA_STORY_POINTS_FIELD       |-> Undefined,
     JIRA_ACCEPTANCE_CRITERIA_FIELD |-> Undefined,
     JIRA_EPIC_LINK_FIELD          |-> Undefined,
     JIRA_CRISIS_FIELD             |-> Undefined,
     JIRA_CRISIS_YES_ID            |-> Undefined,
     JIRA_CRISIS_NO_ID             |-> Undefined]

\* An optional argument that is not a string (story_points, create_test_ticket)
\* is a sequence of length at most one: <<>> when omitted, <<v>> when supplied.
Omitted == <<>>

MakeArgs(issueType, points, createTest, projectKey) ==
    [summary            |-> "Fix login",
     issue_type         |-> issueType,
     description        |-> Undefined,
     story_points       |-> points,
     create_test_ticket |-> createTest,
     project_key        |-> projectKey,
     acceptance_criteria |-> Undefined,
     parent_epic        |-> Undefined,
     sprint             |-> Undefined,
     story_readiness    |-> Undefined,
     crisis             |-> Undefined]

\* Configurations that exercise createJiraTicket: every combination of the
\* product settings and of the category field, under a Bug.
ProtocolInputs ==
    { <<MakeEnv(p, c, Undefined, "PROJ"), MakeArgs("Bug", Omitted, Omitted, Undefined)>> :
        p \in ProductSettings, c \in {Undefined, "customfield_Y"} }

\* Configurations that exercise the handler: every issue type, points given
\* or not, create_test_ticket given or not, AUTO_CREATE_TEST_TICKETS in its
\* spellings, project_key given or not, under the full product configuration.
HandlerInputs ==
    { <<MakeEnv(FullProduct, "customfield_Y", a, k), MakeArgs(t, sp, ct, pk)>> :
        a \in {Undefined, "false", "FALSE"},
        k \in {"PROJ"},
        t \in {"Bug", "Task", "Story", "Test", "Epic"},
        sp \in {Omitted, <<5>>},
        ct \in {Omitted, <<TRUE>>, <<FALSE>>},
        pk \in {Undefined} }

\* A Story with story points whose caller names the project, the project
\* being the configured one or another
ProjectKeyInputs ==
    { <<MakeEnv(FullProduct, "customfield_Y", Undefined, "PROJ"),
        MakeArgs("Story", <<5>>, Omitted, pk)>> : pk \in {"PROJ", "OTHER"} }

Inputs == ProtocolInputs \cup HandlerInputs \cup ProjectKeyInputs

----------------------------------------------------------------------------
(* Payload construction: the create-ticket handler, before the first request *)

\* formatJiraContent(content, defaultText): a one-paragraph ADF document
formatJiraContentDefaultOnly(content, defaultText) ==
    [type    |-> "doc",
     version |-> 1,
     content |-> << [type    |-> "paragraph",
                     content |-> << [type |-> "text", text |-> defaultText] >>] >>]

formatJiraContent(content, defaultText) ==
    [type    |-> "doc",
     version |-> 1,
     content |-> << [type    |-> "paragraph",
                     content |-> << [type |-> "text",
                                     text |-> IF Truthy(content) THEN content
                                                                 ELSE defaultText] >>] >>]

formatDescription(description) ==
    formatJiraContent(description, "No description provided")

\* the ADF nodes the functions build
TextNode(text) == [type |-> "text", text |-> text]

ParagraphNode(text) == [type |-> "paragraph", content |-> <<TextNode(text)>>]

BulletListNode(text) ==
    [type    |-> "bulletList",
     content |-> << [type |-> "listItem", content |-> <<ParagraphNode(text)>>] >>]

Document(content) == [type |-> "doc", version |-> 1, content |-> content]

\* the node formatAcceptanceCriteria pushes for a non-empty trimmed line
CriteriaNodeAlwaysParagraph(trimmedLine) == ParagraphNode(trimmedLine)

CriteriaNode(trimmedLine) ==
    IF startsWith(trimmedLine, "-") \/ startsWith(trimmedLine, "*")
    THEN BulletListNode(trim(substring(trimmedLine, 1)))
    ELSE ParagraphNode(trimmedLine)

\* formatAcceptanceCriteria(criteria)
formatAcceptanceCriteriaNoPlaceholder(criteria) == Document(<<>>)

formatAcceptanceCriteria(criteria) ==
    IF ~Truthy(criteria)
    THEN Document(<<ParagraphNode("No acceptance criteria provided")>>)
    ELSE LET lines   == split(criteria, "\n")
             trimmed == [i \in DOMAIN lines |-> trim(lines[i])]
             kept    == SelectSeq(trimmed, LAMBDA line : line # "")
         IN  Document([i \in DOMAIN kept |-> CriteriaNode(kept[i])])

\* the character U+2022 that extractTextFromAdf puts before a list item,
\* written as its escape since the module is ASCII
BulletGlyph == "\\u2022"

\* the three characters U+0060 that fence a code block, written likewise
CodeFence == "\\u0060\\u0060\\u0060"

\* parts.join(""): the texts of the child nodes, concatenated
RECURSIVE JoinTexts(_)
JoinTexts(parts) ==
    IF parts = <<>> THEN "" ELSE Head(parts) \o JoinTexts(Tail(parts))

\* What extractTextFromAdf may be handed besides a node object: null or
\* undefined, and a bare string.  Both are wrapped in a record, so that every
\* argument is a record: a node object has the members the object has.
MissingNode == [missing |-> TRUE]

BareString(s) == [string |-> s]

\* adf.type
TypeOf(adf) == IF "type" \in DOMAIN adf THEN adf.type ELSE Undefined

\* the decoration of the joined texts of the children, by the type of the node
DecorateUndecorated(type, joined) == joined

Decorate(type, joined) ==
    CASE type \in {"paragraph", "heading"}      -> joined \o "\n"
      [] type \in {"bulletList", "orderedList"} -> joined
      [] type = "listItem" -> BulletGlyph \o " " \o joined \o "\n"
      [] type = "codeBlock" ->
             CodeFence \o "\n" \o joined \o "\n" \o CodeFence \o "\n"
      [] OTHER -> joined

\* extractTextFromAdf(adf) (formatting.ts)
RECURSIVE extractTextFromAdf(_)
extractTextFromAdf(adf) ==
    IF "missing" \in DOMAIN adf THEN ""
    ELSE IF "string" \in DOMAIN adf THEN adf.string
    ELSE IF TypeOf(adf) = "text" /\ "text" \in DOMAIN adf /\ Truthy(adf.text)
    THEN adf.text
    ELSE IF "content" \in DOMAIN adf
         THEN Decorate(TypeOf(adf),
                       JoinTexts([i \in DOMAIN adf.content |->
                                    extractTextFromAdf(adf.content[i])]))
         ELSE ""

\* `https://${process.env.JIRA_HOST}/rest/api/3/customFieldOption/${id}`
OptionSelf(e, id) == <<"https://", e.JIRA_HOST, "/rest/api/3/customFieldOption/", id>>

\* Texts built by template literals are sequences of their pieces.
\* The value of an option field.  shape is "array" for a single-element
\* array holding the option object, "object" for the bare option object and
\* "scalar" for a bare string; members the object lacks are Undefined.
OptionValue(shape, self, value, id) ==
    [shape |-> shape, self |-> self, value |-> value, id |-> id]

NoSelf == <<Undefined>>

\* const autoCreateTestTickets = process.env.AUTO_CREATE_TEST_TICKETS !== "false"
autoCreateTestTickets(e) == e.AUTO_CREATE_TEST_TICKETS # "false"

\* create_test_ticket !== undefined ? create_test_ticket : autoCreateTestTickets
shouldCreateTestTicketIgnoringArgument(e, a) == autoCreateTestTickets(e)

shouldCreateTestTicket(e, a) ==
    IF a.create_test_ticket # Omitted
    THEN a.create_test_ticket[1]
    ELSE autoCreateTestTickets(e)

\* issue_type === "Bug" || issue_type === "Task" || issue_type === "Story"
IsStandardType(issueType) == issueType \in {"Bug", "Task", "Story"}

storyPointsField(e) == OrElse(e.JIRA_STORY_POINTS_FIELD, "customfield_10040")

BasePayload(e, a) ==
    [project     |-> [key |-> OrElse(a.project_key, OrElse(e.JIRA_PROJECT_KEY, "SCRUM"))],
     summary     |-> <<a.summary>>,
     description |-> formatDescription(a.description),
     issuetype   |-> [name |-> a.issue_type]]

ProductPartAnyType(e, a) ==
    IF /\ Truthy(e.JIRA_PRODUCT_FIELD)
       /\ Truthy(e.JIRA_PRODUCT_VALUE)
       /\ Truthy(e.JIRA_PRODUCT_ID)
    THEN e.JIRA_PRODUCT_FIELD :>
            OptionValue("array", OptionSelf(e, e.JIRA_PRODUCT_ID),
                        e.JIRA_PRODUCT_VALUE, e.JIRA_PRODUCT_ID)
    ELSE <<>>

ProductPart(e, a) ==
    IF /\ IsStandardType(a.issue_type)
       /\ Truthy(e.JIRA_PRODUCT_FIELD)
       /\ Truthy(e.JIRA_PRODUCT_VALUE)
       /\ Truthy(e.JIRA_PRODUCT_ID)
    THEN e.JIRA_PRODUCT_FIELD :>
            OptionValue("array", OptionSelf(e, e.JIRA_PRODUCT_ID),
                        e.JIRA_PRODUCT_VALUE, e.JIRA_PRODUCT_ID)
    ELSE <<>>

categoryOptionId(e) ==
    IF e.USE_ALTERNATE_CATEGORY = "true" THEN e.JIRA_ALTERNATE_CATEGORY_ID
                                         ELSE e.JIRA_DEFAULT_CATEGORY_ID

categoryOptionValue(e) ==
    IF e.USE_ALTERNATE_CATEGORY = "true" THEN e.JIRA_ALTERNATE_CATEGORY_VALUE
                                         ELSE e.JIRA_DEFAULT_CATEGORY_VALUE

CategoryPart(e, a) ==
    IF /\ IsStandardType(a.issue_type)
       /\ Truthy(e.JIRA_CATEGORY_FIELD)
       /\ Truthy(categoryOptionId(e))
       /\ Truthy(categoryOptionValue(e))
    THEN e.JIRA_CATEGORY_FIELD :>
            OptionValue("object", OptionSelf(e, categoryOptionId(e)),
                        categoryOptionValue(e), categoryOptionId(e))
    ELSE <<>>

\* lines 782-791: story points and the QA-Testable label
PointsPartAnyType(e, a) ==
    IF a.story_points # Omitted
    THEN ("labels" :> <<"QA-Testable">>) @@ (storyPointsField(e) :> a.story_points[1])
    ELSE <<>>

PointsPart(e, a) ==
    IF a.story_points # Omitted /\ a.issue_type = "Story"
    THEN ("labels" :> <<"QA-Testable">>) @@ (storyPointsField(e) :> a.story_points[1])
    ELSE <<>>

\* lines 710-727: the acceptance criteria
AcceptancePart(e, a) ==
    IF a.acceptance_criteria # Undefined
    THEN OrElse(e.JIRA_ACCEPTANCE_CRITERIA_FIELD, "customfield_10429") :>
            formatAcceptanceCriteria(a.acceptance_criteria)
    ELSE <<>>

\* lines 793-804: the parent of an Epic, the Epic Link of another ticket
ParentPart(e, a) ==
    IF a.parent_epic = Undefined THEN <<>>
    ELSE IF a.issue_type = "Epic"
         THEN "parent" :> [key |-> a.parent_epic]
         ELSE OrElse(e.JIRA_EPIC_LINK_FIELD, "customfield_10014") :> a.parent_epic

\* lines 806-814: the sprint
SprintPart(e, a) ==
    IF a.sprint # Undefined
    THEN "customfield_10020" :> <<[name |-> a.sprint]>>
    ELSE <<>>

\* lines 816-826: the story readiness
ReadinessPart(e, a) ==
    IF a.story_readiness # Undefined
    THEN LET storyReadinessId == IF a.story_readiness = "Yes" THEN "18256" ELSE "18257"
         IN  "customfield_10596" :>
                OptionValue("object", OptionSelf(e, storyReadinessId),
                            a.story_readiness, storyReadinessId)
    ELSE <<>>

\* lines 828-841: the crisis field
CrisisPart(e, a) ==
    IF a.crisis # Undefined
    THEN LET crisisId == IF a.crisis = "Yes" THEN OrElse(e.JIRA_CRISIS_YES_ID, "23123")
                                            ELSE OrElse(e.JIRA_CRISIS_NO_ID, "23124")
         IN  OrElse(e.JIRA_CRISIS_FIELD, "customfield_14238") :>
                OptionValue("object", OptionSelf(e, crisisId), a.crisis, crisisId)
    ELSE <<>>

\* The payload of the main ticket.  Later assignments overwrite earlier ones
\* on the same key, as assignments to payload.fields do.
BuildPayload(e, a) ==
    CrisisPart(e, a) @@ ReadinessPart(e, a) @@ SprintPart(e, a) @@ ParentPart(e, a)
       @@ PointsPart(e, a) @@ CategoryPart(e, a) @@ ProductPart(e, a)
       @@ AcceptancePart(e, a) @@ BasePayload(e, a)

\* testTicketPayload: the payload of the derived Test ticket
testTicketPayloadFromStory(e, a, ticketKey) ==
    [BuildPayload(e, a) EXCEPT !["issuetype"] = [name |-> "Test"]]

testTicketPayload(e, a, ticketKey) ==
    [project     |-> [key |-> OrElse(e.JIRA_PROJECT_KEY, "SCRUM")],
     summary     |-> <<ticketKey, " ", a.summary>>,
     description |-> formatDescription(a.summary),
     issuetype   |-> [name |-> "Test"]]

----------------------------------------------------------------------------
(* What the JIRA host may answer *)

\* keys of the `errors` map the server may use
ErrorKeys == {"customfield_X", "customfield_Y", "summary"}

\* order in which JSON.stringify lists the keys of the `errors` map
ErrorKeyOrder == <<"customfield_X", "customfield_Y", "summary">>

\* an `errors` map: Record<string, string>
ErrorsMap(product, category, other) ==
    [k \in {kk \in ErrorKeys :
              \/ kk = "customfield_X" /\ product # Undefined
              \/ kk = "customfield_Y" /\ category # Undefined
              \/ kk = "summary" /\ other # Undefined} |->
        CASE k = "customfield_X" -> product
          [] k = "customfield_Y" -> category
          [] k = "summary"       -> other]

ErrorMaps ==
    { ErrorsMap(p, c, Undefined) :
        p \in FieldMessages \cup {Undefined},
        c \in FieldMessages \cup {Undefined} }
    \cup { ErrorsMap(p, Undefined, MsgInvalid) : p \in {Undefined, MsgInvalid} }

\* A response body (JiraCreateResponse).  has lists the members present.
Body(has, key, errorMessages, errors) ==
    [has |-> has, key |-> key, errorMessages |-> errorMessages, errors |-> errors]

EmptyBody == Body({}, Undefined, <<>>, ErrorsMap(Undefined, Undefined, Undefined))

\* the key the server gives the ticket a call creates
KeyFor(c) == IF c = "test" THEN "PROJ-11" ELSE "PROJ-10"

SuccessBodies(c) ==
    { Body({"key"}, KeyFor(c), <<>>, EmptyBody.errors), EmptyBody }

\* the longest errorMessages list the server sends
MaxErrorMessages == 1

ErrorTexts == <<"Issue type is invalid", "Project is archived", "Rate limited",
                "Permission denied">>

\* the non-empty errorMessages lists: the first n texts, for each length n
ErrorMessageLists ==
    { SubSeq(ErrorTexts, 1, n) : n \in 1..MaxErrorMessages }

\* JIRA answers a rejected create with {errorMessages: [...], errors: {...}};
\* either member may be missing.
ErrorBodies ==
    { Body({"errors", "errorMessages"}, Undefined, em, er) :
        em \in ErrorMessageLists \cup {<<>>}, er \in ErrorMaps }
    \cup { Body({"errorMessages"}, Undefined, em, EmptyBody.errors) :
             em \in ErrorMessageLists \cup {<<>>} }
    \cup { Body({"errors"}, Undefined, <<>>, ErrorsMap(MsgInvalid, Undefined, Undefined)),
           EmptyBody }

\* A response of fetch.  kind "throw": fetch rejected (transport failure).
\* parse "malformed": response.json() rejects.  parse "unread": the code
\* never reads the body of this response.
Response(kind, status, statusText, parse, data) ==
    [kind |-> kind, status |-> status, statusText |-> statusText,
     parse |-> parse, data |-> data]

NoResponse == Response("none", 0, "", "json", EmptyBody)

Thrown == Response("throw", 0, "", "json", EmptyBody)

RejectingResponses ==
    { Response("http", 400, "Bad Request", "json", b) : b \in ErrorBodies }
    \cup { Response("http", 500, "Internal Server Error", "json", b) :
             b \in { bb \in ErrorBodies :
                       bb.errors \in {EmptyBody.errors,
                                      ErrorsMap(MsgRequiredMixed, Undefined, Undefined),
                                      ErrorsMap(Undefined, MsgInvalid, Undefined)} } }
    \cup { Response("http", 400, "Bad Request", "malformed", EmptyBody) }

MainResponses ==
    { Response("http", 201, "Created", "json", b) : b \in SuccessBodies("main") }
    \cup RejectingResponses
    \cup { Response("http", 201, "Created", "malformed", EmptyBody), Thrown }

TestResponses ==
    { Response("http", 201, "Created", "json", b) : b \in SuccessBodies("test") }
    \cup RejectingResponses
    \cup { Response("http", 201, "Created", "malformed", EmptyBody), Thrown }

\* the answers to the primary request and to the removal retry of a call
Responses(c) == IF c = "test" THEN TestResponses ELSE MainResponses

\* The answers to a request carrying an alternative product format: the code
\* reads the body of such a response only when the response is ok.  A
\* rejection is listed with a body left unread, and once with a body that
\* would not parse (an HTML error page of a proxy).
FormatResponses(c) ==
    { r \in Responses(c) : r.status = 201 \/ r.kind = "throw" }
    \cup { Response("http", 400, "Bad Request", "unread", EmptyBody),
           Response("http", 500, "Internal Server Error", "unread", EmptyBody),
           Response("http", 502, "Bad Gateway", "malformed", EmptyBody) }

\* response.ok
Ok(r) == r.kind = "http" /\ r.status >= 200 /\ r.status <= 299

----------------------------------------------------------------------------
(* createJiraTicket: the decisions taken on a failed primary response *)

\* the value a createJiraTicket call returns: {success, data, errorMessage}
Result(success, data, errorMessage) ==
    [success |-> success, data |-> data, errorMessage |-> errorMessage]

\* an errorMessage member that is not there
NoMessage == <<Undefined>>

NoResult == Result(FALSE, EmptyBody, NoMessage)

\* data.key
KeyOf(data) == IF "key" \in data.has THEN data.key ELSE Undefined

\* One request of a createJiraTicket call: POST /rest/api/3/issue with this
\* body.  settled tells whether the promise of the fetch has settled, that is
\* whether the call has been resumed with the answer (or the rejection).
Attempt(kind, payload) == [kind |-> kind, payload |-> payload, settled |-> FALSE]

\* `await fetch(...)` resumes: the latest request is answered
SettleNothing(requests) == requests

Settle(requests) ==
    [i \in DOMAIN requests |->
        IF i = Len(requests) THEN [requests[i] EXCEPT !.settled = TRUE]
                             ELSE requests[i]]

\* response.status === 400 && responseData.errors
IsFieldValidationErrorAnyStatus(r) == "errors" \in r.data.has

IsFieldValidationError(r) == r.status = 400 /\ "errors" \in r.data.has

\* productField && responseData.errors[productField]
hasProductFieldError(e, r) ==
    /\ Truthy(e.JIRA_PRODUCT_FIELD)
    /\ e.JIRA_PRODUCT_FIELD \in DOMAIN r.data.errors
    /\ Truthy(r.data.errors[e.JIRA_PRODUCT_FIELD])

\* categoryField && responseData.errors[categoryField]
hasCategoryFieldError(e, r) ==
    /\ Truthy(e.JIRA_CATEGORY_FIELD)
    /\ e.JIRA_CATEGORY_FIELD \in DOMAIN r.data.errors
    /\ Truthy(r.data.errors[e.JIRA_CATEGORY_FIELD])

\* if (productValue && productId): the alternative formats are tried
TriesProductFormatsValueOnly(e, r) == Truthy(e.JIRA_PRODUCT_VALUE)

TriesProductFormats(e, r) ==
    /\ Truthy(e.JIRA_PRODUCT_VALUE)
    /\ Truthy(e.JIRA_PRODUCT_ID)

\* errorMessage.toLowerCase().includes('required'), for the product field's message
IsRequiredProductErrorCaseSensitive(e, r) ==
    /\ hasProductFieldError(e, r)
    /\ IncludesRequiredNoCase(r.data.errors[e.JIRA_PRODUCT_FIELD])

IsRequiredProductError(e, r) ==
    /\ hasProductFieldError(e, r)
    /\ IncludesRequired(r.data.errors[e.JIRA_PRODUCT_FIELD])

\* the three alternative encodings of the product field, in the order tried
ProductFormatsReordered(e) ==
    << OptionValue("array",  NoSelf, Undefined, e.JIRA_PRODUCT_ID),
       OptionValue("scalar", NoSelf, Undefined, e.JIRA_PRODUCT_ID),
       OptionValue("array",  NoSelf, e.JIRA_PRODUCT_VALUE, Undefined) >>

ProductFormatsWithFourth(e) ==
    << OptionValue("scalar", NoSelf, Undefined, e.JIRA_PRODUCT_ID),
       OptionValue("array",  NoSelf, Undefined, e.JIRA_PRODUCT_ID),
       OptionValue("array",  NoSelf, e.JIRA_PRODUCT_VALUE, Undefined),
       OptionValue("object", NoSelf, e.JIRA_PRODUCT_VALUE, e.JIRA_PRODUCT_ID) >>

ProductFormats(e) ==
    << OptionValue("scalar", NoSelf, Undefined, e.JIRA_PRODUCT_ID),
       OptionValue("array",  NoSelf, Undefined, e.JIRA_PRODUCT_ID),
       OptionValue("array",  NoSelf, e.JIRA_PRODUCT_VALUE, Undefined) >>

\* retryPayload = JSON.parse(JSON.stringify(payload));
\* retryPayload.fields[productField] = <the n-th format>
FormatPayloadFieldOnly(e, payload, n) ==
    (e.JIRA_PRODUCT_FIELD :> ProductFormats(e)[n])

FormatPayload(e, payload, n) ==
    (e.JIRA_PRODUCT_FIELD :> ProductFormats(e)[n]) @@ payload

\* the fields the removal retry deletes from its copy of the payload
RemovedFieldsProductOnly(e, r) ==
    IF hasProductFieldError(e, r) /\ ~IsRequiredProductError(e, r)
    THEN {e.JIRA_PRODUCT_FIELD} ELSE {}

RemovedFields(e, r) ==
    (IF hasProductFieldError(e, r) /\ ~IsRequiredProductError(e, r)
     THEN {e.JIRA_PRODUCT_FIELD} ELSE {})
    \cup (IF hasCategoryFieldError(e, r) THEN {e.JIRA_CATEGORY_FIELD} ELSE {})

\* (hasProductFieldError && !...includes('required')) || hasCategoryFieldError
TriesRemoval(e, r) ==
    \/ hasProductFieldError(e, r) /\ ~IsRequiredProductError(e, r)
    \/ hasCategoryFieldError(e, r)

RemovalPayloadKeepingAll(e, r, payload) == payload

RemovalPayload(e, r, payload) ==
    [k \in DOMAIN payload \ RemovedFields(e, r) |-> payload[k]]

\* Array.prototype.join
Join(list, sep) ==
    [i \in 1..(IF Len(list) = 0 THEN 0 ELSE 2 * Len(list) - 1) |->
        IF i % 2 = 1 THEN list[(i + 1) \div 2] ELSE sep]

\* JSON.stringify of an `errors` map
StringifyErrors(errors) ==
    LET keys == SelectSeq(ErrorKeyOrder, LAMBDA k : k \in DOMAIN errors)
        entry(i) == <<"\"", keys[i], "\":\"", errors[keys[i]], "\"">>
        entries[i \in 0..Len(keys)] ==
            IF i = 0 THEN <<>>
            ELSE entries[i - 1] \o (IF i = 1 THEN <<>> ELSE <<",">>) \o entry(i)
    IN  <<"{">> \o entries[Len(keys)] \o <<"}">>

\* the message of the final failure, extracted from a response (lines 516-523)
ErrorDetail(r) ==
    IF "errorMessages" \in r.data.has /\ Len(r.data.errorMessages) > 0
    THEN Join(r.data.errorMessages, ", ")
    ELSE IF "errors" \in r.data.has
         THEN StringifyErrors(r.data.errors)
         ELSE <<"Status: ", ToString(r.status), " ", r.statusText>>

\* whether a response carries an error detail of its own
CarriesDetail(r) ==
    \/ "errorMessages" \in r.data.has /\ Len(r.data.errorMessages) > 0
    \/ "errors" \in r.data.has

\* return { success: false, data: responseData, errorMessage } (line 525)
FinalFailure(r) == Result(FALSE, r.data, ErrorDetail(r))

\* the failure returned after a rejected removal retry: the code falls
\* through to line 516 and reports the primary response
RemovalFailureFromRetry(primary, retry) ==
    IF CarriesDetail(retry) THEN FinalFailure(retry) ELSE FinalFailure(primary)

RemovalFailure(primary, retry) == FinalFailure(primary)

\* the failure returned for a required product field (lines 470-474)
RequiredDiagnostic(e, r) ==
    Result(FALSE, r.data,
           << "Required field validation failed: ",
              r.data.errors[e.JIRA_PRODUCT_FIELD],
              ". The product ID \"", e.JIRA_PRODUCT_ID,
              "\" or value \"", e.JIRA_PRODUCT_VALUE,
              "\" may be invalid for your JIRA instance." >>)

\* catch (error): { success: false, data: {}, errorMessage: error.message }
ExceptionResultWithoutMessage(message) == Result(FALSE, EmptyBody, NoMessage)

ExceptionResult(message) == Result(FALSE, EmptyBody, <<message>>)

FetchFailed == "request to JIRA failed"

InvalidJson == "invalid json response body"

----------------------------------------------------------------------------
(* createJiraTicket: the steps between two awaits *)

\* the payload the running createJiraTicket call was given
ticketKey == KeyOf(result.data)

CallPayload == payloadObject

\* const retryPayload = JSON.parse(JSON.stringify(payload)): the retry is built
\* on a copy, and the object the call was given stays as it was
AfterCopyAliased(original, copy) == copy

AfterCopy(original, copy) == original

\* await fetch(jiraUrl, {method: "POST", ..., body: JSON.stringify(p)})
Issue(kind, p, next) ==
    /\ attempts' = Append(Settle(attempts), Attempt(kind, p))
    /\ issued' = [issued EXCEPT ![call] = @ + 1]
    /\ cjpc' = next
    /\ ret' = ret
    /\ payloadObject' = AfterCopy(payloadObject, p)

\* return r
Return(r) ==
    /\ cjpc' = "returned"
    /\ ret' = r
    /\ attempts' = Settle(attempts)
    /\ UNCHANGED <<issued, payloadObject>>

\* lines 478-526: the removal retry, or the final failure
RemovalOrFail(r) ==
    IF TriesRemoval(env, r)
    THEN Issue("removal", RemovalPayload(env, r, CallPayload), "awaitRemoval")
    ELSE Return(FinalFailure(r))

\* lines 462-526: after the alternative formats, tried or not
AfterProductFormatsRemovalFirst(r) ==
    IF TriesRemoval(env, r)
    THEN Issue("removal", RemovalPayload(env, r, CallPayload), "awaitRemoval")
    ELSE IF IsRequiredProductError(env, r)
         THEN Return(RequiredDiagnostic(env, r))
         ELSE Return(FinalFailure(r))

AfterProductFormats(r) ==
    IF IsRequiredProductError(env, r)
    THEN Return(RequiredDiagnostic(env, r))
    ELSE RemovalOrFail(r)

\* lines 372-526: the primary response is not ok
OnPrimaryFailure(r) ==
    IF IsFieldValidationError(r)
    THEN IF hasProductFieldError(env, r)
         THEN IF TriesProductFormats(env, r)
              THEN Issue("format", FormatPayload(env, CallPayload, 1), "awaitFormat")
              ELSE AfterProductFormats(r)
         ELSE RemovalOrFail(r)
    ELSE Return(FinalFailure(r))

\* the primary request is answered (lines 361-372, 528-536)
PrimaryResponse(r) ==
    /\ cjpc = "awaitPrimary"
    /\ response' = r
    /\ IF r.kind = "throw" THEN Return(ExceptionResult(FetchFailed))
       ELSE IF r.parse = "malformed" THEN Return(ExceptionResult(InvalidJson))
       ELSE IF Ok(r) THEN Return(Result(TRUE, r.data, NoMessage))
       ELSE OnPrimaryFailure(r)
    /\ UNCHANGED <<fmt, toolVars, parked, env, args, pc, call, retryResponse, result, testResult,
                   linkRequest, output>>

\* the number of alternative formats submitted so far
formatsTried == Cardinality({i \in DOMAIN attempts : attempts[i].kind = "format"})

\* a request carrying an alternative product format is answered (lines 406-460)
FormatResponse(r) ==
    /\ cjpc = "awaitFormat"
    /\ retryResponse' = r
    /\ IF r.kind = "throw" THEN Return(ExceptionResult(FetchFailed))
       ELSE IF Ok(r)
            THEN IF r.parse = "malformed"
                 THEN Return(ExceptionResult(InvalidJson))
                 ELSE Return(Result(TRUE, r.data, NoMessage))
       ELSE IF formatsTried < Len(ProductFormats(env))
            THEN Issue("format", FormatPayload(env, CallPayload, formatsTried + 1),
                       "awaitFormat")
            ELSE AfterProductFormats(response)
    /\ UNCHANGED <<fmt, toolVars, parked, env, args, pc, call, response, result, testResult,
                   linkRequest, output>>

\* the removal retry is answered (lines 496-526)
RemovalResponse(r) ==
    /\ cjpc = "awaitRemoval"
    /\ retryResponse' = r
    /\ IF r.kind = "throw" THEN Return(ExceptionResult(FetchFailed))
       ELSE IF r.parse = "malformed" THEN Return(ExceptionResult(InvalidJson))
       ELSE IF Ok(r) THEN Return(Result(TRUE, r.data, NoMessage))
       ELSE Return(RemovalFailure(response, r))
    /\ UNCHANGED <<fmt, toolVars, parked, env, args, pc, call, response, result, testResult,
                   linkRequest, output>>

----------------------------------------------------------------------------
(* createTicketLink *)

LinkResult(success, errorMessage) == [success |-> success, errorMessage |-> errorMessage]

\* the body POSTed to /rest/api/3/issueLink
LinkPayloadSwapped(outwardIssue, inwardIssue, linkType) ==
    [outwardIssue |-> [key |-> inwardIssue],
     inwardIssue  |-> [key |-> outwardIssue],
     type         |-> [name |-> linkType]]

LinkPayload(outwardIssue, inwardIssue, linkType) ==
    [outwardIssue |-> [key |-> outwardIssue],
     inwardIssue  |-> [key |-> inwardIssue],
     type         |-> [name |-> linkType]]

NoLinkRequest == LinkPayload(Undefined, Undefined, Undefined)

LinkResponses ==
    { Response("http", 201, "Created", "json", EmptyBody),
      Response("http", 404, "Not Found", "json", EmptyBody),
      Response("http", 404, "Not Found", "malformed", EmptyBody),
      Thrown }

\* what createTicketLink returns for an answer r (lines 563-594)
createTicketLink(r) ==
    IF r.kind = "throw" THEN LinkResult(FALSE, <<FetchFailed>>)
    ELSE IF ~Ok(r)
         THEN IF r.parse = "malformed"
              THEN LinkResult(FALSE, <<InvalidJson>>)
              ELSE LinkResult(FALSE, <<"Status: ", ToString(r.status), " ", r.statusText>>)
         ELSE LinkResult(TRUE, NoMessage)

----------------------------------------------------------------------------
(* The create-ticket handler *)

NoOutput == <<>>

\* no payload object: no createJiraTicket call is running
NoPayload == <<>>

\* the locals of createJiraTicket, outside a call
CallIdle ==
    /\ call' = "none"
    /\ cjpc' = "idle"
    /\ attempts' = <<>>
    /\ response' = NoResponse
    /\ retryResponse' = NoResponse
    /\ ret' = NoResult
    /\ payloadObject' = NoPayload

\* a new createJiraTicket call runs up to its first await
CallCreate(target, payload) ==
    /\ call' = target
    /\ cjpc' = "awaitPrimary"
    /\ attempts' = <<Attempt("primary", payload)>>
    /\ issued' = [issued EXCEPT ![target] = @ + 1]
    /\ response' = NoResponse
    /\ retryResponse' = NoResponse
    /\ ret' = NoResult
    /\ payloadObject' = payload

\* the text of a successful result, before any note (lines 864-874)
CreatedText(a, key) ==
    << "Created ticket ", key, " with summary: ", a.summary,
       ", description: ", OrElse(a.description, "No description"),
       ", issue type: ", a.issue_type >>
    \o (IF a.acceptance_criteria # Undefined
        THEN <<", acceptance criteria: ", a.acceptance_criteria>> ELSE <<>>)
    \o (IF a.story_points # Omitted
        THEN <<", story points: ", ToString(a.story_points[1])>> ELSE <<>>)

\* lines 877-882: whether the Test ticket is created
CreatesTestTicket(e, a, r) ==
    /\ shouldCreateTestTicket(e, a)
    /\ a.issue_type = "Story"
    /\ a.story_points # Omitted
    /\ Truthy(KeyOf(r.data))

\* the text returned when the main create failed (lines 851-860)
MainFailureText(a, r) == <<"Error creating ticket: ">> \o r.errorMessage

\* the note appended when the Test ticket was not created (line 916)
TestFailureTextReplacing(text, r) ==
    <<"Error creating ticket: ">> \o r.errorMessage

TestFailureText(text, r) ==
    text \o <<"\nFailed to create test ticket: ">> \o r.errorMessage

\* the note appended after the link call (lines 910-914)
LinkText(text, testKey, link) ==
    IF link.success
    THEN text \o <<"\nCreated linked test ticket ", testKey>>
    ELSE text \o <<"\nCreated test ticket ", testKey, " but failed to link it: ">>
              \o link.errorMessage

\* lines 688-849: the handler builds the payload and calls createJiraTicket
HandlerStart ==
    /\ pc = "start"
    /\ pc' = "awaitMain"
    /\ CallCreate("main", BuildPayload(env, args))
    /\ UNCHANGED <<fmt, toolVars, parked, env, args, result, testResult, linkRequest, output>>

\* lines 849-899, 920-927: the main createJiraTicket call has returned
MainCreated ==
    /\ pc = "awaitMain"
    /\ cjpc = "returned"
    /\ result' = ret
    /\ IF ~ret.success
       THEN /\ output' = MainFailureText(args, ret)
            /\ pc' = "done"
            /\ CallIdle
            /\ UNCHANGED issued
       ELSE /\ output' = CreatedText(args, KeyOf(ret.data))
            /\ IF CreatesTestTicket(env, args, ret)
               THEN /\ pc' = "awaitTest"
                    /\ CallCreate("test", testTicketPayload(env, args, KeyOf(ret.data)))
               ELSE /\ pc' = "done"
                    /\ CallIdle
                    /\ UNCHANGED issued
    /\ UNCHANGED <<fmt, toolVars, parked, env, args, testResult, linkRequest>>

\* lines 899-917: the Test-ticket createJiraTicket call has returned
TestCreated ==
    /\ pc = "awaitTest"
    /\ cjpc = "returned"
    /\ testResult' = ret
    /\ CallIdle
    /\ IF ret.success /\ Truthy(KeyOf(ret.data))
       THEN /\ pc' = "awaitLink"
            /\ linkRequest' = LinkPayload(ticketKey, KeyOf(ret.data), "Test Case Linking")
            /\ issued' = [issued EXCEPT !["link"] = @ + 1]
            /\ output' = output
       ELSE /\ pc' = "done"
            /\ output' = TestFailureText(output, ret)
            /\ UNCHANGED <<linkRequest, issued>>
    /\ UNCHANGED <<fmt, toolVars, parked, env, args, result>>

\* lines 903-914, 920-927: the link request is answered
LinkResponse(r) ==
    /\ pc = "awaitLink"
    /\ pc' = "done"
    /\ output' = LinkText(output, KeyOf(testResult.data), createTicketLink(r))
    /\ UNCHANGED <<fmt, toolVars, parked, env, args, call, cjpc, attempts, response,
                   retryResponse, ret, result, testResult, linkRequest, issued,
                   payloadObject>>

----------------------------------------------------------------------------
(* Several create-ticket invocations.  The locals of an invocation live in *)
(* its own activation; while it waits for a response the event loop may    *)
(* run another invocation.  One invocation runs on the variables above,    *)
(* the other is suspended in `parked`.                                     *)

\* the locals of the running invocation
Locals ==
    [args |-> args, pc |-> pc, call |-> call, cjpc |-> cjpc, attempts |-> attempts,
     response |-> response, retryResponse |-> retryResponse, ret |-> ret,
     result |-> result, testResult |-> testResult, linkRequest |-> linkRequest,
     issued |-> issued, output |-> output, payloadObject |-> payloadObject]

\* the locals of an invocation that has not started
FreshLocals(a) ==
    [args |-> a, pc |-> "start", call |-> "none", cjpc |-> "idle", attempts |-> <<>>,
     response |-> NoResponse, retryResponse |-> NoResponse, ret |-> NoResult,
     result |-> NoResult, testResult |-> NoResult, linkRequest |-> NoLinkRequest,
     issued |-> [main |-> 0, test |-> 0, link |-> 0], output |-> NoOutput,
     payloadObject |-> NoPayload]

Suspended(id, locals) == [id |-> id, locals |-> locals]

\* a single invocation: nothing is suspended
NoInvocation == [id |-> 0]

\* the invocation that runs: 1 or 2
running == IF parked = NoInvocation THEN 1 ELSE 3 - parked.id

\* the running invocation is suspended at an await, has finished or has not
\* started, and the event loop resumes the other one
Switch ==
    /\ parked # NoInvocation
    /\ cjpc # "returned"
    /\ parked' = Suspended(running, Locals)
    /\ args' = parked.locals.args
    /\ pc' = parked.locals.pc
    /\ call' = parked.locals.call
    /\ cjpc' = parked.locals.cjpc
    /\ attempts' = parked.locals.attempts
    /\ response' = parked.locals.response
    /\ retryResponse' = parked.locals.retryResponse
    /\ ret' = parked.locals.ret
    /\ result' = parked.locals.result
    /\ testResult' = parked.locals.testResult
    /\ linkRequest' = parked.locals.linkRequest
    /\ issued' = parked.locals.issued
    /\ output' = parked.locals.output
    /\ payloadObject' = parked.locals.payloadObject
    /\ UNCHANGED <<env, fmt, toolVars>>

----------------------------------------------------------------------------
(* The other tools, when none of them runs *)

\* update-ticket (src/src/index.ts, lines 1256-1341)
UpdateArgs(ticket_key, sprint, story_readiness) ==
    [ticket_key |-> ticket_key, sprint |-> sprint, story_readiness |-> story_readiness]

Update(a, at, requests, text) ==
    [args |-> a, pc |-> at, requests |-> requests, output |-> text]

NoUpdate == Update(UpdateArgs(Undefined, Undefined, Undefined), "idle", <<>>, NoOutput)

\* lines 1276-1284: the sprint
UpdateSprint(a) ==
    IF a.sprint # Undefined
    THEN "customfield_10020" :> <<[name |-> a.sprint]>>
    ELSE <<>>

\* lines 1286-1296: the story readiness
UpdateReadiness(e, a) ==
    IF a.story_readiness # Undefined
    THEN LET storyReadinessId == IF a.story_readiness = "Yes" THEN "18256" ELSE "18257"
         IN  "customfield_10596" :>
                OptionValue("object", OptionSelf(e, storyReadinessId),
                            a.story_readiness, storyReadinessId)
    ELSE <<>>

\* lines 1271-1296: the payload of the update
UpdatePayloadSprintOnly(e, a) == [fields |-> UpdateSprint(a)]

UpdatePayload(e, a) == [fields |-> UpdateReadiness(e, a) @@ UpdateSprint(a)]

\* Object.keys(payload.fields).length === 0
NothingToUpdateNever(payload) == FALSE

NothingToUpdate(payload) == DOMAIN payload.fields = {}

\* PUT /rest/api/3/issue/{ticket_key} with the payload as its body
UpdateRequest(ticket_key, payload) == [ticket_key |-> ticket_key, payload |-> payload]

UpdateResponses ==
    { Response("http", 204, "No Content", "json", EmptyBody),
      Response("http", 400, "Bad Request", "json",
               Body({"errorMessages"}, Undefined, <<"Sprint does not exist">>,
                    EmptyBody.errors)),
      Response("http", 404, "Not Found", "json", EmptyBody),
      Response("http", 404, "Not Found", "malformed", EmptyBody),
      Thrown }

\* updateJiraTicket (imported from ./update-ticket.js): one PUT, the result
\* tells whether the host accepted it
updateJiraTicket(r) ==
    IF r.kind = "throw" THEN Result(FALSE, EmptyBody, <<FetchFailed>>)
    ELSE IF Ok(r) THEN Result(TRUE, r.data, NoMessage)
    ELSE IF r.parse = "malformed" THEN Result(FALSE, EmptyBody, <<InvalidJson>>)
    ELSE IF r.data.errorMessages # <<>>
         THEN Result(FALSE, r.data, Join(r.data.errorMessages, ", "))
         ELSE Result(FALSE, r.data, <<"Status: ", ToString(r.status), " ", r.statusText>>)

NothingToUpdateText == <<"Error: At least one field to update must be provided">>

\* lines 1324-1331: the text of a successful update
UpdatedText(a) ==
    <<"Successfully updated ticket ", a.ticket_key>>
    \o (IF a.sprint # Undefined THEN <<", sprint: ", a.sprint>> ELSE <<>>)
    \o (IF a.story_readiness # Undefined
        THEN <<", story readiness: ", a.story_readiness>> ELSE <<>>)

\* lines 1264-1310: the handler builds the payload and, unless it is empty,
\* calls updateJiraTicket
UpdateStart ==
    /\ upd.pc = "start"
    /\ LET payload == UpdatePayload(env, upd.args)
       IN  IF NothingToUpdate(payload)
           THEN upd' = [upd EXCEPT !.pc = "done", !.output = NothingToUpdateText]
           ELSE upd' = [upd EXCEPT
                          !.pc = "awaitUpdate",
                          !.requests = Append(@, UpdateRequest(upd.args.ticket_key, payload))]
    /\ UNCHANGED <<createVars, fmt, trn, zts>>

\* lines 1310-1340: updateJiraTicket has returned
UpdateResponse(r) ==
    /\ upd.pc = "awaitUpdate"
    /\ LET updated == updateJiraTicket(r)
       IN  upd' = [upd EXCEPT
                     !.pc = "done",
                     !.output = IF ~updated.success
                                THEN <<"Error updating ticket: ">> \o updated.errorMessage
                                ELSE UpdatedText(upd.args)]
    /\ UNCHANGED <<createVars, fmt, trn, zts>>

\* transition-ticket (src/src/jira/tools.ts, lines 737-851)
TransitionArgs(ticket_key, transition_name, transition_id, list_transitions, comment) ==
    [ticket_key |-> ticket_key, transition_name |-> transition_name,
     transition_id |-> transition_id, list_transitions |-> list_transitions,
     comment |-> comment]

\* an entry of the transitions JIRA lists for a ticket: {id, name, to: {name}}
Transition(id, name, to) == [id |-> id, name |-> name, to |-> [name |-> to]]

\* the value of transitions.find(...) when no entry passes the test
NotFound == [missing |-> TRUE]

\* the result of getJiraTransitions: {success, data: {transitions?}, errorMessage}
TransitionsResult(success, has, transitions, errorMessage) ==
    [success |-> success, data |-> [has |-> has, transitions |-> transitions],
     errorMessage |-> errorMessage]

NoTransitionsResult == TransitionsResult(FALSE, {}, <<>>, NoMessage)

TransitionState(a, at, transitionsResult, requests, text) ==
    [args |-> a, pc |-> at, transitionsResult |-> transitionsResult,
     requests |-> requests, output |-> text]

NoTransition ==
    TransitionState(TransitionArgs(Undefined, Undefined, Undefined, Omitted, Undefined),
                    "idle", NoTransitionsResult, <<>>, NoOutput)

\* the answers to GET /issue/{key}/transitions
TransitionLists ==
    { <<>>,
      <<Transition("31", "Done", "Done")>>,
      <<Transition("11", "In Progress", "In Progress"),
        Transition("21", "done", "Closed"),
        Transition("31", "Done", "Done")>> }

TransitionsAnswer(kind, status, statusText, has, transitions) ==
    [kind |-> kind, status |-> status, statusText |-> statusText, has |-> has,
     transitions |-> transitions]

TransitionsAnswers ==
    { TransitionsAnswer("http", 200, "OK", {"transitions"}, l) : l \in TransitionLists }
    \cup { TransitionsAnswer("http", 200, "OK", {}, <<>>),
           TransitionsAnswer("http", 404, "Not Found", {}, <<>>),
           TransitionsAnswer("throw", 0, "", {}, <<>>) }

\* getJiraTransitions (imported from ./api.js): one GET, the result carries
\* the body when the host answered 2xx
getJiraTransitions(r) ==
    IF r.kind = "throw" THEN TransitionsResult(FALSE, {}, <<>>, <<FetchFailed>>)
    ELSE IF ~Ok(r)
         THEN TransitionsResult(FALSE, {}, <<>>,
                                <<"Status: ", ToString(r.status), " ", r.statusText>>)
         ELSE TransitionsResult(TRUE, r.has, r.transitions, NoMessage)

\* transitionJiraTicket (imported from ./api.js): one POST to
\* /issue/{key}/transitions
transitionJiraTicket(r) ==
    IF r.kind = "throw" THEN Result(FALSE, EmptyBody, <<FetchFailed>>)
    ELSE IF Ok(r) THEN Result(TRUE, r.data, NoMessage)
    ELSE IF r.data.errorMessages # <<>>
         THEN Result(FALSE, r.data, Join(r.data.errorMessages, ", "))
         ELSE Result(FALSE, r.data, <<"Status: ", ToString(r.status), " ", r.statusText>>)

TransitionResponses ==
    { Response("http", 204, "No Content", "json", EmptyBody),
      Response("http", 400, "Bad Request", "json",
               Body({"errorMessages"}, Undefined, <<"Transition is not valid">>,
                    EmptyBody.errors)),
      Thrown }

\* transitionsResult.data?.transitions || []
transitionsOf(transitionsResult) ==
    IF "transitions" \in transitionsResult.data.has
    THEN transitionsResult.data.transitions
    ELSE <<>>

\* Array.prototype.find: the first entry that passes the test, passing being
\* the positions of the entries that pass it
find(list, passing) ==
    IF passing = {} THEN NotFound
    ELSE list[CHOOSE i \in passing : \A j \in passing : i <= j]

\* (t) => t.id === transition_id
ById(transitions, id) == {i \in DOMAIN transitions : transitions[i].id = id}

\* (t) => t.name.toLowerCase() === transition_name.toLowerCase()
ByNameExact(transitions, name) == {i \in DOMAIN transitions : transitions[i].name = name}

ByName(transitions, name) ==
    {i \in DOMAIN transitions :
        toLowerCase(Chars(transitions[i].name)) = toLowerCase(Chars(name))}

\* lines 787-795: the transition asked for, by ID or else by name
targetTransitionNameFirst(a, transitions) ==
    IF Truthy(a.transition_name)
    THEN find(transitions, ByName(transitions, a.transition_name))
    ELSE find(transitions, ById(transitions, a.transition_id))

targetTransition(a, transitions) ==
    IF Truthy(a.transition_id)
    THEN find(transitions, ById(transitions, a.transition_id))
    ELSE find(transitions, ByName(transitions, a.transition_name))

\* the call transitionJiraTicket(ticket_key, targetTransition.id, commentBody, auth)
TransitionRequest(ticket_key, id, commentBody) ==
    [ticket_key |-> ticket_key, id |-> id, commentBody |-> commentBody]

NoComment == [missing |-> TRUE]

\* comment ? formatDescription(comment) : undefined
commentBodyOf(a) == IF Truthy(a.comment) THEN formatDescription(a.comment) ELSE NoComment

\* line 780: JSON.stringify of the list, written without its indentation
TransitionListText(transitions) ==
    LET entry(t) == <<"{\"id\":\"", t.id, "\",\"name\":\"", t.name,
                      "\",\"to\":\"", t.to.name, "\"}">>
        entries[i \in 0..Len(transitions)] ==
            IF i = 0 THEN <<>>
            ELSE entries[i - 1] \o (IF i = 1 THEN <<>> ELSE <<",">>) \o entry(transitions[i])
    IN  <<"[">> \o entries[Len(transitions)] \o <<"]">>

\* line 806: the names and IDs of the available transitions
AvailableNames(transitions) ==
    LET entries[i \in 0..Len(transitions)] ==
            IF i = 0 THEN <<>>
            ELSE entries[i - 1] \o (IF i = 1 THEN <<>> ELSE <<", ">>)
                 \o <<"\"", transitions[i].name, "\" (id: ", transitions[i].id, ")">>
    IN  entries[Len(transitions)]

NeitherGivenText ==
    <<"Error: Either transition_name or transition_id is required (or use list_transitions to see available options)">>

\* lines 747-753: the handler asks for the available transitions
TransitionStart ==
    /\ trn.pc = "start"
    /\ trn' = [trn EXCEPT !.pc = "awaitTransitions"]
    /\ UNCHANGED <<createVars, fmt, upd, zts>>

\* lines 753-824: the transitions have come, or not; the handler lists them,
\* or picks one and asks for the transition
TransitionsResponse(r) ==
    /\ trn.pc = "awaitTransitions"
    /\ LET transitionsResult == getJiraTransitions(r)
           transitions == transitionsOf(transitionsResult)
           a == trn.args
           target == targetTransition(a, transitions)
       IN  IF ~transitionsResult.success
           THEN trn' = [trn EXCEPT
                          !.pc = "done",
                          !.transitionsResult = transitionsResult,
                          !.output = <<"Error getting transitions: ">>
                                     \o transitionsResult.errorMessage]
           ELSE IF a.list_transitions = <<TRUE>>
           THEN trn' = [trn EXCEPT
                          !.pc = "done",
                          !.transitionsResult = transitionsResult,
                          !.output = <<"Available transitions for ", a.ticket_key, ":\n\n">>
                                     \o TransitionListText(transitions)]
           ELSE IF ~Truthy(a.transition_id) /\ ~Truthy(a.transition_name)
           THEN trn' = [trn EXCEPT
                          !.pc = "done",
                          !.transitionsResult = transitionsResult,
                          !.output = NeitherGivenText]
           ELSE IF target = NotFound
           THEN trn' = [trn EXCEPT
                          !.pc = "done",
                          !.transitionsResult = transitionsResult,
                          !.output = <<"Error: Transition not found. Available transitions: ">>
                                     \o AvailableNames(transitions)]
           ELSE trn' = [trn EXCEPT
                          !.pc = "awaitTransition",
                          !.transitionsResult = transitionsResult,
                          !.requests = Append(@, TransitionRequest(a.ticket_key, target.id,
                                                                   commentBodyOf(a)))]
    /\ UNCHANGED <<createVars, fmt, upd, zts>>

\* lines 819-850: transitionJiraTicket has returned
TransitionResponse(r) ==
    /\ trn.pc = "awaitTransition"
    /\ LET transitioned == transitionJiraTicket(r)
           a == trn.args
           target == targetTransition(a, transitionsOf(trn.transitionsResult))
       IN  trn' = [trn EXCEPT
                     !.pc = "done",
                     !.output =
                         IF ~transitioned.success
                         THEN <<"Error transitioning ticket: ">> \o transitioned.errorMessage
                         ELSE <<"Successfully transitioned ", a.ticket_key, " to \"",
                                target.to.name, "\"">>
                              \o (IF Truthy(a.comment) THEN <<" with comment">> ELSE <<>>)]
    /\ UNCHANGED <<createVars, fmt, upd, zts>>

\* add-test-steps (src/src/index.ts, lines 1440-1540)
TestStep(step, data, expected) == [step |-> step, data |-> data, result |-> expected]

StepsArgs(ticket_key, steps) == [ticket_key |-> ticket_key, steps |-> steps]

\* the result of getJiraIssueId: {success, id?, projectId?, errorMessage?}
IdResult(success, id, projectId, errorMessage) ==
    [success |-> success, id |-> id, projectId |-> projectId,
     errorMessage |-> errorMessage]

NoIdResult == IdResult(FALSE, Undefined, Undefined, NoMessage)

\* the result of addZephyrTestStep: {success, errorMessage?}
StepResult(success, errorMessage) == [success |-> success, errorMessage |-> errorMessage]

\* submitted: the bodies POSTed to Zephyr so far; stepResults: what
\* addZephyrTestStep returned for each of them; results, allSuccessful: the
\* handler's locals of these names
StepsState(a, at, idResult, submitted, stepResults, results, allSuccessful, text) ==
    [args |-> a, pc |-> at, idResult |-> idResult, submitted |-> submitted,
     stepResults |-> stepResults, results |-> results,
     allSuccessful |-> allSuccessful, output |-> text]

NoSteps ==
    StepsState(StepsArgs(Undefined, <<>>), "idle", NoIdResult, <<>>, <<>>, <<>>, TRUE,
               NoOutput)

\* the answers to GET /rest/api/3/issue/{ticketKey}
IdAnswer(kind, status, statusText, parse, id, projectId, errorMessages) ==
    [kind |-> kind, status |-> status, statusText |-> statusText, parse |-> parse,
     id |-> id, projectId |-> projectId, errorMessages |-> errorMessages]

IdAnswers ==
    { IdAnswer("http", 200, "OK", "json", "10001", "10000", <<>>),
      IdAnswer("http", 200, "OK", "json", "10001", Undefined, <<>>),
      IdAnswer("http", 200, "OK", "json", Undefined, "10000", <<>>),
      IdAnswer("http", 200, "OK", "malformed", Undefined, Undefined, <<>>),
      IdAnswer("http", 404, "Not Found", "json", Undefined, Undefined,
               <<"Issue does not exist">>),
      IdAnswer("http", 404, "Not Found", "json", Undefined, Undefined, <<>>),
      IdAnswer("throw", 0, "", "json", Undefined, Undefined, <<>>) }

\* getJiraIssueId (lines 1194-1254)
getJiraIssueId(r) ==
    IF r.kind = "throw" THEN IdResult(FALSE, Undefined, Undefined, <<FetchFailed>>)
    ELSE IF r.parse = "malformed"
         THEN IdResult(FALSE, Undefined, Undefined, <<InvalidJson>>)
    ELSE IF ~Ok(r)
         THEN IdResult(FALSE, Undefined, Undefined,
                       IF r.errorMessages # <<>>
                       THEN Join(r.errorMessages, ", ")
                       ELSE <<"Status: ", ToString(r.status), " ", r.statusText>>)
    ELSE IF ~Truthy(r.id)
         THEN IdResult(FALSE, Undefined, Undefined, <<"No issue ID found in response">>)
         ELSE IdResult(TRUE, r.id, r.projectId, NoMessage)

\* the answers to POST {baseUrl}/public/rest/api/1.0/teststep/{issueId}
StepResponses ==
    { Response("http", 200, "OK", "json", EmptyBody),
      Response("http", 200, "OK", "malformed", EmptyBody),
      Response("http", 500, "Internal Server Error", "json", EmptyBody),
      Thrown }

\* addZephyrTestStep (lines 142-218): the body is parsed before the status
\* is looked at
addZephyrTestStep(r) ==
    IF r.kind = "throw" THEN StepResult(FALSE, <<FetchFailed>>)
    ELSE IF r.parse = "malformed" THEN StepResult(FALSE, <<InvalidJson>>)
    ELSE IF ~Ok(r)
         THEN StepResult(FALSE, <<"Status: ", ToString(r.status), " ", r.statusText>>)
         ELSE StepResult(TRUE, NoMessage)

\* JSON.stringify({ projectId, step, data, result }), with the issue the URL names
StepRequest(issueId, projectId, s) ==
    [issueId |-> issueId, projectId |-> projectId, step |-> s.step,
     data |-> IF s.data = Undefined THEN "" ELSE s.data,
     result |-> IF s.result = Undefined THEN "" ELSE s.result]

\* lines 1507-1512: the line pushed for step number n
StepLine(n, stepResult) ==
    IF stepResult.success
    THEN <<"Step ", ToString(n), ": Added successfully">>
    ELSE <<"Step ", ToString(n), ": Failed - ">> \o stepResult.errorMessage

\* lines 1507-1512: allSuccessful after a step
allSuccessfulLastOnly(allSuccessful, stepResult) == stepResult.success

allSuccessfulAfter(allSuccessful, stepResult) == allSuccessful /\ stepResult.success

\* results.join("\n")
RECURSIVE JoinLines(_)
JoinLines(lines) ==
    IF lines = <<>> THEN <<>>
    ELSE IF Len(lines) = 1 THEN lines[1]
    ELSE lines[1] \o <<"\n">> \o JoinLines(Tail(lines))

\* lines 1515-1537: the text returned after the last step
StepsText(a, results, allSuccessful) ==
    IF allSuccessful
    THEN <<"Successfully added ", ToString(Len(a.steps)), " test step(s) to ticket ",
           a.ticket_key, ":\n\n">> \o JoinLines(results)
    ELSE <<"Some test steps could not be added to ticket ", a.ticket_key, ":\n\n">>
         \o JoinLines(results)

\* lines 1455-1462: the handler asks for the internal ID of the ticket
StepsStart ==
    /\ zts.pc = "start"
    /\ zts' = [zts EXCEPT !.pc = "awaitId"]
    /\ UNCHANGED <<createVars, fmt, upd, trn>>

\* lines 1462-1505: getJiraIssueId has returned; the loop starts
IdResponse(r) ==
    /\ zts.pc = "awaitId"
    /\ LET idResult == getJiraIssueId(r)
           a == zts.args
       IN  IF ~idResult.success \/ ~Truthy(idResult.id)
           THEN zts' = [zts EXCEPT
                          !.pc = "done",
                          !.idResult = idResult,
                          !.output = <<"Error getting internal ID for ticket ",
                                       a.ticket_key, ": ">> \o idResult.errorMessage]
           ELSE IF ~Truthy(idResult.projectId)
           THEN zts' = [zts EXCEPT
                          !.pc = "done",
                          !.idResult = idResult,
                          !.output = <<"Error: Project ID not found for ticket ",
                                       a.ticket_key>>]
           ELSE zts' = [zts EXCEPT
                          !.pc = "awaitStep",
                          !.idResult = idResult,
                          !.submitted = <<StepRequest(idResult.id, idResult.projectId,
                                                      a.steps[1])>>]
    /\ UNCHANGED <<createVars, fmt, upd, trn>>

\* lines 1499-1537: addZephyrTestStep has returned; the loop goes on with the
\* next step, or the handler returns
StepResponse(r) ==
    /\ zts.pc = "awaitStep"
    /\ LET stepResult == addZephyrTestStep(r)
           a == zts.args
           index == Len(zts.results)
           results == Append(zts.results, StepLine(index + 1, stepResult))
           allSuccessful == allSuccessfulAfter(zts.allSuccessful, stepResult)
       IN  IF index + 1 < Len(a.steps)
           THEN zts' = [zts EXCEPT
                          !.stepResults = Append(@, stepResult),
                          !.results = results,
                          !.allSuccessful = allSuccessful,
                          !.submitted = Append(@, StepRequest(zts.idResult.id,
                                                              zts.idResult.projectId,
                                                              a.steps[index + 2]))]
           ELSE zts' = [zts EXCEPT
                          !.pc = "done",
                          !.stepResults = Append(@, stepResult),
                          !.results = results,
                          !.allSuccessful = allSuccessful,
                          !.output = StepsText(a, results, allSuccessful)]
    /\ UNCHANGED <<createVars, fmt, upd, trn>>

NoOtherTool ==
    /\ upd = NoUpdate
    /\ trn = NoTransition
    /\ zts = NoSteps

----------------------------------------------------------------------------
(* The document functions on their own: a text is turned into a document  *)
(* by formatJiraContent or by formatAcceptanceCriteria, and a document is *)
(* turned back into text as the list-comments handler does.               *)

\* the pieces the texts are made of, and the number of pieces of a text
Pieces == {"a", " ", "-", "*", "\n", "No acceptance criteria provided"}

MaxPieces == 4

RECURSIVE Texts(_)
Texts(n) ==
    IF n = 0 THEN {""}
    ELSE LET shorter == Texts(n - 1)
         IN  shorter \cup {s \o p : s \in shorter, p \in Pieces}

\* a text argument: a string, or undefined
TextInputs == {Undefined} \cup Texts(MaxPieces)

Format(input, built, doc, flattened, text) ==
    [input |-> input, built |-> built, doc |-> doc, flattened |-> flattened,
     raw |-> "", text |-> text]

NoFormat == Format(Undefined, "none", Document(<<>>), FALSE, "")

\* formatJiraContent(text, "X")
BuildParagraph ==
    /\ fmt.built = "none"
    /\ fmt' = [fmt EXCEPT !.built = "paragraph",
                          !.doc = formatJiraContent(fmt.input, "X")]
    /\ UNCHANGED <<createVars, toolVars>>

\* formatAcceptanceCriteria(text)
BuildCriteria ==
    /\ fmt.built = "none"
    /\ fmt' = [fmt EXCEPT !.built = "criteria",
                          !.doc = formatAcceptanceCriteria(fmt.input)]
    /\ UNCHANGED <<createVars, toolVars>>

\* The comment bodies JIRA may send: finite ADF trees.  A tree of depth n is
\* a leaf, or a node of some type whose content is empty or holds a tree of
\* depth n - 1, alone or between two text nodes.
NodeTypes == {"doc", "paragraph", "heading", "bulletList", "orderedList",
              "listItem", "codeBlock", "panel"}

AdfLeaves == {TextNode("a"), [type |-> "hardBreak"], MissingNode}

MaxDepth == 2

RECURSIVE AdfTrees(_)
AdfTrees(n) ==
    IF n = 0 THEN AdfLeaves
    ELSE LET smaller == AdfTrees(n - 1)
         IN  smaller
             \cup {[type |-> t, content |-> <<>>] : t \in NodeTypes}
             \cup {[type |-> t, content |-> pre \o <<c>> \o post] :
                      t \in NodeTypes, c \in smaller,
                      pre \in {<<>>, <<TextNode("b")>>},
                      post \in {<<>>, <<TextNode("c")>>}}

\* everything the function may be handed
AdfInputs ==
    AdfTrees(MaxDepth)
    \cup {BareString("a b"), BareString(""), TextNode(""),
          [content |-> <<TextNode("a")>>],
          [type |-> "text", content |-> <<TextNode("a")>>]}

\* a comment body arrives (tools.ts, list-comments)
ReceiveBody ==
    /\ fmt.built = "none"
    /\ fmt.input = Undefined
    /\ \E body \in AdfInputs : fmt' = [fmt EXCEPT !.built = "received", !.doc = body]
    /\ UNCHANGED <<createVars, toolVars>>

\* extractTextFromAdf(body).trim() (tools.ts, list-comments)
Flatten ==
    /\ fmt.built # "none"
    /\ ~fmt.flattened
    /\ fmt' = [fmt EXCEPT !.flattened = TRUE,
                          !.raw = extractTextFromAdf(fmt.doc),
                          !.text = trim(extractTextFromAdf(fmt.doc))]
    /\ UNCHANGED <<createVars, toolVars>>

InitFormat ==
    /\ env = MakeEnv(FullProduct, "customfield_Y", Undefined, "PROJ")
    /\ args = MakeArgs("Task", Omitted, Omitted, Undefined)
    /\ pc = "done"
    /\ call = "none"
    /\ cjpc = "idle"
    /\ attempts = <<>>
    /\ response = NoResponse
    /\ retryResponse = NoResponse
    /\ ret = NoResult
    /\ result = NoResult
    /\ testResult = NoResult
    /\ linkRequest = NoLinkRequest
    /\ issued = [main |-> 0, test |-> 0, link |-> 0]
    /\ output = NoOutput
    /\ payloadObject = NoPayload
    /\ parked = NoInvocation
    /\ NoOtherTool
    /\ \E t \in TextInputs : fmt = Format(t, "none", Document(<<>>), FALSE, "")

NextFormat ==
    \/ BuildParagraph
    \/ BuildCriteria
    \/ ReceiveBody
    \/ Flatten

SpecFormat == InitFormat /\ [][NextFormat]_vars

----------------------------------------------------------------------------
(* The handler up to its first request, over the configurations and the   *)
(* arguments that decide what the payload carries.                        *)

\* the four category settings, each of them set or not
CategorySettings ==
    [JIRA_DEFAULT_CATEGORY_ID      : {Undefined, "20001"},
     JIRA_DEFAULT_CATEGORY_VALUE   : {Undefined, "Default Category"},
     JIRA_ALTERNATE_CATEGORY_ID    : {Undefined, "20002"},
     JIRA_ALTERNATE_CATEGORY_VALUE : {Undefined, "Alternate Category"}]

\* the settings in which at most one of the four is missing
CategoryCases ==
    { c \in CategorySettings :
        Cardinality({k \in DOMAIN c : c[k] = Undefined}) <= 1 }

BuildEnv(product, categoryField, category, useAlternate, pointsField) ==
    [MakeEnv(product, categoryField, Undefined, "PROJ") EXCEPT
        !.USE_ALTERNATE_CATEGORY        = useAlternate,
        !.JIRA_DEFAULT_CATEGORY_ID      = category.JIRA_DEFAULT_CATEGORY_ID,
        !.JIRA_DEFAULT_CATEGORY_VALUE   = category.JIRA_DEFAULT_CATEGORY_VALUE,
        !.JIRA_ALTERNATE_CATEGORY_ID    = category.JIRA_ALTERNATE_CATEGORY_ID,
        !.JIRA_ALTERNATE_CATEGORY_VALUE = category.JIRA_ALTERNATE_CATEGORY_VALUE,
        !.JIRA_STORY_POINTS_FIELD       = pointsField]

BuildInputs ==
    { <<BuildEnv(p, cf, c, ua, pf), MakeArgs(t, sp, Omitted, Undefined)>> :
        p \in ProductSettings,
        cf \in {Undefined, "customfield_Y"},
        c \in CategoryCases,
        ua \in {Undefined, "true", "TRUE"},
        pf \in {Undefined, "customfield_10016"},
        t \in {"Bug", "Task", "Story", "Test", "Epic"},
        sp \in {Omitted, <<0>>, <<5>>} }

\* the three crisis settings, each set or unset, and the crisis flag
CrisisSettings ==
    [JIRA_CRISIS_FIELD  : {Undefined, "customfield_C"},
     JIRA_CRISIS_YES_ID : {Undefined, "30001"},
     JIRA_CRISIS_NO_ID  : {Undefined, "30002"}]

CrisisEnv(crisis) ==
    [MakeEnv(FullProduct, "customfield_Y", Undefined, "PROJ") EXCEPT
        !.JIRA_CRISIS_FIELD  = crisis.JIRA_CRISIS_FIELD,
        !.JIRA_CRISIS_YES_ID = crisis.JIRA_CRISIS_YES_ID,
        !.JIRA_CRISIS_NO_ID  = crisis.JIRA_CRISIS_NO_ID]

CrisisInputs ==
    { <<CrisisEnv(c), [MakeArgs(t, Omitted, Omitted, Undefined) EXCEPT !.crisis = flag]>> :
        c \in CrisisSettings,
        t \in {"Bug", "Task", "Story", "Test", "Epic"},
        flag \in {Undefined, "Yes", "No"} }

InitBuild ==
    /\ \E in \in BuildInputs \cup CrisisInputs : env = in[1] /\ args = in[2]
    /\ pc = "start"
    /\ call = "none"
    /\ cjpc = "idle"
    /\ attempts = <<>>
    /\ response = NoResponse
    /\ retryResponse = NoResponse
    /\ ret = NoResult
    /\ result = NoResult
    /\ testResult = NoResult
    /\ linkRequest = NoLinkRequest
    /\ issued = [main |-> 0, test |-> 0, link |-> 0]
    /\ output = NoOutput
    /\ payloadObject = NoPayload
    /\ parked = NoInvocation
    /\ fmt = NoFormat
    /\ NoOtherTool

NextBuild == HandlerStart

SpecBuild == InitBuild /\ [][NextBuild]_vars

----------------------------------------------------------------------------
(* The other tools, each invoked once while no ticket is being created *)

\* no create-ticket invocation is running and no text is being formatted
CreateAtRest ==
    /\ env = MakeEnv(FullProduct, "customfield_Y", Undefined, "PROJ")
    /\ args = MakeArgs("Task", Omitted, Omitted, Undefined)
    /\ pc = "done"
    /\ call = "none"
    /\ cjpc = "idle"
    /\ attempts = <<>>
    /\ response = NoResponse
    /\ retryResponse = NoResponse
    /\ ret = NoResult
    /\ result = NoResult
    /\ testResult = NoResult
    /\ linkRequest = NoLinkRequest
    /\ issued = [main |-> 0, test |-> 0, link |-> 0]
    /\ output = NoOutput
    /\ payloadObject = NoPayload
    /\ parked = NoInvocation
    /\ fmt = NoFormat

UpdateInputs ==
    { UpdateArgs(k, sp, sr) :
        k \in {"PROJ-1", "PROJ-2"},
        sp \in {Undefined, "", "Sprint 1", "Sprint 2"},
        sr \in {Undefined, "Yes", "No"} }

InitUpdate ==
    /\ CreateAtRest
    /\ \E a \in UpdateInputs : upd = Update(a, "start", <<>>, NoOutput)
    /\ trn = NoTransition
    /\ zts = NoSteps

NextUpdate ==
    \/ UpdateStart
    \/ \E r \in UpdateResponses : UpdateResponse(r)

SpecUpdate == InitUpdate /\ [][NextUpdate]_vars

TransitionInputs ==
    { TransitionArgs("PROJ-1", n, i, l, c) :
        n \in {Undefined, "", "done", "Reopen"},
        i \in {Undefined, "", "31", "99"},
        l \in {Omitted, <<TRUE>>, <<FALSE>>},
        c \in {Undefined, "ok"} }

InitTransition ==
    /\ CreateAtRest
    /\ \E a \in TransitionInputs :
          trn = TransitionState(a, "start", NoTransitionsResult, <<>>, NoOutput)
    /\ upd = NoUpdate
    /\ zts = NoSteps

NextTransition ==
    \/ TransitionStart
    \/ \E r \in TransitionsAnswers : TransitionsResponse(r)
    \/ \E r \in TransitionResponses : TransitionResponse(r)

SpecTransition == InitTransition /\ [][NextTransition]_vars

\* the longest list of steps an invocation is given
MaxSteps == 3

StepChoices ==
    { TestStep("open the page", Undefined, Undefined),
      TestStep("press Save", "a form", "the form is saved") }

RECURSIVE StepLists(_)
StepLists(n) ==
    IF n = 1 THEN { <<s>> : s \in StepChoices }
    ELSE StepLists(n - 1)
         \cup { Append(l, s) : l \in {m \in StepLists(n - 1) : Len(m) = n - 1},
                               s \in StepChoices }

StepsInputs == { StepsArgs("PROJ-7", l) : l \in StepLists(MaxSteps) }

InitSteps ==
    /\ CreateAtRest
    /\ \E a \in StepsInputs :
          zts = StepsState(a, "start", NoIdResult, <<>>, <<>>, <<>>, TRUE, NoOutput)
    /\ upd = NoUpdate
    /\ trn = NoTransition

NextSteps ==
    \/ StepsStart
    \/ \E r \in IdAnswers : IdResponse(r)
    \/ \E r \in StepResponses : StepResponse(r)

SpecSteps == InitSteps /\ [][NextSteps]_vars

----------------------------------------------------------------------------
(* The specification *)

Init ==
    /\ \E in \in Inputs : env = in[1] /\ args = in[2]
    /\ pc = "start"
    /\ call = "none"
    /\ cjpc = "idle"
    /\ attempts = <<>>
    /\ response = NoResponse
    /\ retryResponse = NoResponse
    /\ ret = NoResult
    /\ result = NoResult
    /\ testResult = NoResult
    /\ linkRequest = NoLinkRequest
    /\ issued = [main |-> 0, test |-> 0, link |-> 0]
    /\ output = NoOutput
    /\ payloadObject = NoPayload
    /\ parked = NoInvocation
    /\ fmt = NoFormat
    /\ NoOtherTool

Next ==
    \/ HandlerStart
    \/ \E r \in Responses(call) : PrimaryResponse(r)
    \/ \E r \in FormatResponses(call) : FormatResponse(r)
    \/ \E r \in Responses(call) : RemovalResponse(r)
    \/ MainCreated
    \/ TestCreated
    \/ \E r \in LinkResponses : LinkResponse(r)

Spec == Init /\ [][Next]_vars

----------------------------------------------------------------------------
(* Two create-ticket invocations under one configuration.  The host       *)
(* answers each request of an invocation with a response of its own: the  *)
(* tickets of the two invocations get different keys.                     *)

PairSummary(id) == IF id = 1 THEN "Fix login" ELSE "Add export"

PairArgs(id) ==
    { [MakeArgs(t, sp, Omitted, Undefined) EXCEPT !.summary = PairSummary(id)] :
        t \in {"Story"}, sp \in {Omitted, <<5>>} }

\* the key the server gives the ticket a call of invocation id creates
PairKeyFor(id, c) ==
    IF id = 1 THEN (IF c = "test" THEN "PROJ-11" ELSE "PROJ-10")
              ELSE (IF c = "test" THEN "PROJ-21" ELSE "PROJ-20")

PairResponses(id, c) ==
    { Response("http", 201, "Created", "json",
               Body({"key"}, PairKeyFor(id, c), <<>>, EmptyBody.errors)),
      Response("http", 400, "Bad Request", "json",
               Body({"errors"}, Undefined, <<>>,
                    ErrorsMap(MsgInvalid, MsgInvalid, Undefined))),
      Thrown }

PairFormatResponses(id, c) ==
    { r \in PairResponses(id, c) : r.status = 201 }
    \cup { Response("http", 400, "Bad Request", "unread", EmptyBody) }

InitPair ==
    /\ env = MakeEnv(FullProduct, "customfield_Y", Undefined, "PROJ")
    /\ \E a \in PairArgs(1) : args = a
    /\ \E a \in PairArgs(2) : parked = Suspended(2, FreshLocals(a))
    /\ pc = "start"
    /\ call = "none"
    /\ cjpc = "idle"
    /\ attempts = <<>>
    /\ response = NoResponse
    /\ retryResponse = NoResponse
    /\ ret = NoResult
    /\ result = NoResult
    /\ testResult = NoResult
    /\ linkRequest = NoLinkRequest
    /\ issued = [main |-> 0, test |-> 0, link |-> 0]
    /\ output = NoOutput
    /\ payloadObject = NoPayload
    /\ fmt = NoFormat
    /\ NoOtherTool

NextPair ==
    \/ HandlerStart
    \/ \E r \in PairResponses(running, call) : PrimaryResponse(r)
    \/ \E r \in PairFormatResponses(running, call) : FormatResponse(r)
    \/ \E r \in PairResponses(running, call) : RemovalResponse(r)
    \/ MainCreated
    \/ TestCreated
    \/ \E r \in LinkResponses : LinkResponse(r)
    \/ Switch

SpecPair == InitPair /\ [][NextPair]_vars

----------------------------------------------------------------------------
(* Vocabulary of the properties *)

productField == env.JIRA_PRODUCT_FIELD

categoryField == env.JIRA_CATEGORY_FIELD

\* the number of requests of a kind issued by the running createJiraTicket call
Count(kind) == Cardinality({i \in DOMAIN attempts : attempts[i].kind = kind})

\* the createJiraTicket call has returned and its locals are still in scope
Returned == cjpc = "returned"

\* the primary response is HTTP 400 with a per-field errors map
PrimaryIsFieldError ==
    /\ response.kind = "http"
    /\ response.status = 400
    /\ "errors" \in response.data.has

\* the errors map of the primary response names the configured product field
NamesProduct ==
    /\ PrimaryIsFieldError
    /\ productField # Undefined
    /\ productField \in DOMAIN response.data.errors

\* the errors map of the primary response names the configured category field
NamesCategory ==
    /\ PrimaryIsFieldError
    /\ categoryField # Undefined
    /\ categoryField \in DOMAIN response.data.errors

\* the product field's message contains "required", whatever the case
RequiredFlavored ==
    /\ NamesProduct
    /\ response.data.errors[productField] = MsgRequiredMixed

ProductConfigured ==
    env.JIRA_PRODUCT_VALUE # Undefined /\ env.JIRA_PRODUCT_ID # Undefined

\* the server accepted the request: a 2xx response with a well-formed body
Accepted(r) == r.kind = "http" /\ r.status \in 200..299 /\ r.parse = "json"

\* the server rejected the request: an HTTP response outside 2xx
Rejected(r) == r.kind = "http" /\ r.status \notin 200..299

LastKind == IF attempts = <<>> THEN "none" ELSE attempts[Len(attempts)].kind

\* payload q is payload p without the fields in removed, all else equal
SameExcept(p, q, removed) ==
    /\ DOMAIN q = DOMAIN p \ removed
    /\ \A k \in DOMAIN q : q[k] = p[k]

\* payload q is payload p with field f set to v, all else equal
SameButField(p, q, f, v) ==
    /\ DOMAIN q = DOMAIN p \cup {f}
    /\ q[f] = v
    /\ \A k \in DOMAIN q \ {f} : q[k] = p[k]

----------------------------------------------------------------------------
(* C1: one createJiraTicket call issues at most one primary request, at    *)
(* most three product-format requests and at most one removal retry, so at *)
(* most five POST /issue requests, and no request of any other kind.       *)
C1_BoundedAttempts ==
    /\ Count("primary") <= 1
    /\ Count("format") <= 3
    /\ Count("removal") <= 1
    /\ Len(attempts) <= 5
    /\ \A i \in DOMAIN attempts : attempts[i].kind \in {"primary", "format", "removal"}
    /\ call # "none" => issued[call] = Len(attempts)

C1_Witness ==
    /\ Returned
    /\ Len(attempts) = 5
    /\ Count("format") = 3
    /\ Count("removal") = 1

----------------------------------------------------------------------------
\* the n-th encoding of the product field, as the specification lists them
C2_ExpectedFormat(n) ==
    CASE n = 1 -> [shape |-> "scalar", self |-> NoSelf, value |-> Undefined,
                   id |-> env.JIRA_PRODUCT_ID]
      [] n = 2 -> [shape |-> "array", self |-> NoSelf, value |-> Undefined,
                   id |-> env.JIRA_PRODUCT_ID]
      [] n = 3 -> [shape |-> "array", self |-> NoSelf, value |-> env.JIRA_PRODUCT_VALUE,
                   id |-> Undefined]

(* C2: the requests of the product-format ladder carry, in this order, the *)
(* primary payload with the product field replaced by (i) the product ID   *)
(* as a scalar string, (ii) a one-element array holding {id}, (iii) a      *)
(* one-element array holding {value}; nothing else differs from the        *)
(* primary payload; and once the server has accepted a variant the call    *)
(* has returned success with that response and has issued nothing more.    *)
C2_FormatLadder ==
    /\ \A i \in DOMAIN attempts :
          attempts[i].kind = "format" =>
             /\ i \in 2..4
             /\ \A j \in 2..i : attempts[j].kind = "format"
             /\ SameButField(attempts[1].payload, attempts[i].payload,
                             productField, C2_ExpectedFormat(i - 1))
    /\ (LastKind = "format" /\ retryResponse.kind = "http" /\ retryResponse.status \in 200..299)
          => /\ Returned
             /\ Accepted(retryResponse) => ret.success /\ ret.data = retryResponse.data

C2_Witness ==
    /\ Returned
    /\ Count("format") = 2
    /\ LastKind = "format"
    /\ Accepted(retryResponse)
    /\ ret.success
    /\ productField \in DOMAIN attempts[1].payload

C4_RetryRejected ==
    /\ Returned
    /\ LastKind = "removal"
    /\ Rejected(retryResponse)
    /\ retryResponse.parse = "json"

(* C4, as stated: after a rejected removal retry the failure message is    *)
(* the retry response's own error detail if it carries one, and the        *)
(* primary response's otherwise.                                           *)
C4_MessageFromRetry ==
    C4_RetryRejected =>
        /\ ~ret.success
        /\ ret.errorMessage = (IF CarriesDetail(retryResponse)
                               THEN ErrorDetail(retryResponse)
                               ELSE ErrorDetail(response))

(* C4, amended: after a rejected removal retry (with a well-formed body)   *)
(* the call returns a failure whose message and data are those of the      *)
(* primary response, whether or not the retry response carries a detail.   *)
C4_MessageFromPrimary ==
    C4_RetryRejected =>
        /\ ~ret.success
        /\ ret.errorMessage = ErrorDetail(response)
        /\ ret.data = response.data

C4_Witness ==
    /\ C4_RetryRejected
    /\ CarriesDetail(retryResponse)
    /\ ErrorDetail(retryResponse) # ErrorDetail(response)

(* C5: when the primary response is HTTP 400 with an errors map that names *)
(* the configured category field and not the product field, the call       *)
(* issues exactly one retry, whose payload is the primary payload without  *)
(* the category field and with every other field unchanged.                *)
C5_CategoryOnlyRetry ==
    (Returned /\ NamesCategory /\ ~NamesProduct) =>
        /\ Len(attempts) = 2
        /\ attempts[2].kind = "removal"
        /\ categoryField \notin DOMAIN attempts[2].payload
        /\ SameExcept(attempts[1].payload, attempts[2].payload, {categoryField})

C5_Witness ==
    /\ Returned
    /\ NamesCategory
    /\ ~NamesProduct
    /\ categoryField \in DOMAIN attempts[1].payload
    /\ DOMAIN response.data.errors = {categoryField}
    /\ ret.success

(* C6: a second request is issued only if the primary response is HTTP 400 *)
(* with an errors map naming the configured product or category field;     *)
(* after any other failed primary response the call has issued exactly one *)
(* request and returns a failure.                                          *)
C6_RetryOnlyOnFieldError ==
    /\ Len(attempts) >= 2 => NamesProduct \/ NamesCategory
    /\ (Returned /\ Rejected(response) /\ ~(NamesProduct \/ NamesCategory))
          => Len(attempts) = 1 /\ ~ret.success

C6_Witness ==
    /\ Returned
    /\ PrimaryIsFieldError
    /\ DOMAIN response.data.errors = {"summary"}
    /\ productField # Undefined
    /\ categoryField # Undefined
    /\ Len(attempts) = 1
    /\ ~ret.success

\* a required product error whose three variants were all rejected
C7_LadderExhausted ==
    /\ Returned
    /\ RequiredFlavored
    /\ ProductConfigured
    /\ Count("format") = 3
    /\ Rejected(retryResponse)

(* C7: when the product-field error is required-flavored, product value    *)
(* and ID are configured and all three variants are rejected, the call     *)
(* returns a failure whose message names the product ID and value, and     *)
(* issues no removal retry, even if the category field is among the errors.*)
C7_RequiredDiagnostic ==
    C7_LadderExhausted =>
        /\ ~ret.success
        /\ \E i \in DOMAIN ret.errorMessage : ret.errorMessage[i] = env.JIRA_PRODUCT_ID
        /\ \E i \in DOMAIN ret.errorMessage : ret.errorMessage[i] = env.JIRA_PRODUCT_VALUE
        /\ ret.errorMessage[1] = "Required field validation failed: "
        /\ Count("removal") = 0
        /\ Len(attempts) = 4

C7_Witness ==
    /\ C7_LadderExhausted
    /\ NamesCategory

\* the fields marked for removal after a product error
C8_MarkedFields ==
    {productField} \cup (IF NamesCategory THEN {categoryField} ELSE {})

----------------------------------------------------------------------------
\* the main createJiraTicket call returned success
C9_MainSucceeded == pc \in {"awaitTest", "awaitLink", "done"} /\ result.success

(* C9: once the main create has succeeded, the text the handler returns    *)
(* reports the main ticket as created, naming its key, whatever happens to *)
(* the Test-ticket create and to the link call: their failure only appends *)
(* a note and the text never becomes the error text.                       *)
C9_PrimarySuccessKept ==
    C9_MainSucceeded =>
        /\ Len(output) >= 8
        /\ output[1] = "Created ticket "
        /\ output[2] = KeyOf(result.data)
        /\ output[4] = args.summary
        /\ \A i \in DOMAIN output : output[i] # "Error creating ticket: "

C9_Witness ==
    /\ pc = "done"
    /\ result.success
    /\ issued["link"] = 1
    /\ \E i \in DOMAIN output : output[i] = " but failed to link it: "

C9_WitnessTestFailed ==
    /\ pc = "done"
    /\ result.success
    /\ issued["test"] > 0
    /\ ~testResult.success
    /\ \E i \in DOMAIN output : output[i] = "\nFailed to create test ticket: "

\* test-ticket creation is enabled; the whole condition of the specification
C10_Enabled ==
    \/ args.create_test_ticket = <<TRUE>>
    \/ args.create_test_ticket = <<>> /\ env.AUTO_CREATE_TEST_TICKETS # "false"

C10_Condition ==
    /\ C10_Enabled
    /\ args.issue_type = "Story"
    /\ args.story_points # <<>>
    /\ result.success
    /\ "key" \in result.data.has
    /\ result.data.key \notin {Undefined, ""}

(* C10: a Test-ticket create request is issued if and only if test-ticket  *)
(* creation is enabled (create_test_ticket when supplied, else on unless   *)
(* AUTO_CREATE_TEST_TICKETS is exactly "false"), the issue type is exactly *)
(* "Story", story points were supplied, and the main create succeeded and  *)
(* returned a key.                                                         *)
C10_TestTicketIff ==
    /\ issued["test"] > 0 => C10_Condition
    /\ pc = "done" => (issued["test"] > 0 <=> C10_Condition)

C10_Witness ==
    /\ pc = "done"
    /\ issued["test"] > 0
    /\ args.create_test_ticket = <<TRUE>>
    /\ env.AUTO_CREATE_TEST_TICKETS = "false"

C10_WitnessNotCreated ==
    /\ pc = "done"
    /\ issued["test"] = 0
    /\ result.success
    /\ args.issue_type = "Story"
    /\ args.story_points # <<>>
    /\ "key" \notin result.data.has

----------------------------------------------------------------------------
(* C11: the Test-ticket create request is issued only after the main       *)
(* create has succeeded, and the link call (main key outward, Test key     *)
(* inward, type "Test Case Linking") only after the Test-ticket create has *)
(* succeeded; after a failed main create neither is issued, and after a    *)
(* failed Test-ticket create no link call is issued.                       *)
C11_CreateThenTestThenLink ==
    /\ issued["link"] <= 1
    /\ issued["test"] > 0 =>
          /\ issued["main"] >= 1
          /\ result.success
          /\ pc \in {"awaitTest", "awaitLink", "done"}
    /\ issued["link"] > 0 =>
          /\ issued["test"] > 0
          /\ testResult.success
          /\ pc \in {"awaitLink", "done"}
          /\ linkRequest.outwardIssue.key = KeyOf(result.data)
          /\ linkRequest.inwardIssue.key = KeyOf(testResult.data)
          /\ linkRequest.type.name = "Test Case Linking"
    /\ issued["link"] = 0 => linkRequest = NoLinkRequest
    /\ (pc = "done" /\ ~result.success) => issued["test"] = 0 /\ issued["link"] = 0
    /\ (pc = "done" /\ issued["test"] > 0 /\ ~testResult.success) => issued["link"] = 0

C11_Witness ==
    /\ pc = "done"
    /\ issued["test"] > 0
    /\ issued["link"] = 1
    /\ linkRequest.outwardIssue.key = "PROJ-10"
    /\ linkRequest.inwardIssue.key = "PROJ-11"

C11_WitnessTestFailed ==
    /\ pc = "done"
    /\ result.success
    /\ issued["test"] > 0
    /\ ~testResult.success
    /\ issued["link"] = 0

\* the requests of the running createJiraTicket call that are not answered yet
C12_Outstanding == {i \in DOMAIN attempts : ~attempts[i].settled}

(* C12: within one createJiraTicket call at most one request is            *)
(* outstanding at any time: when a request is issued every earlier request *)
(* of the call has been answered, and the only request that can be         *)
(* outstanding is the latest one, while the call waits for its answer.     *)
C12_OneOutstanding ==
    /\ Cardinality(C12_Outstanding) <= 1
    /\ \A i \in C12_Outstanding : i = Len(attempts)
    /\ C12_Outstanding # {} <=> cjpc \in {"awaitPrimary", "awaitFormat", "awaitRemoval"}
    /\ Len(attempts) >= 2 => response # NoResponse
    /\ Len(attempts) >= 3 => retryResponse # NoResponse

C12_Witness ==
    /\ cjpc = "awaitRemoval"
    /\ Len(attempts) = 5
    /\ C12_Outstanding = {5}
    /\ \A i \in 1..4 : attempts[i].settled

\* the request that the latest retry response answers
C13_RetryKind ==
    IF cjpc = "returned" THEN LastKind ELSE attempts[Len(attempts) - 1].kind

\* the answer is a rejected fetch, or has a body that does not parse
C13_Faulty(r) == r.kind = "throw" \/ (r.kind = "http" /\ r.parse = "malformed")

\* the answer makes an await of the call throw: the fetch is rejected, or
\* the body is read and does not parse; the body of a rejected variant is
\* not read
C13_Raises(r, kind) ==
    \/ r.kind = "throw"
    \/ r.kind = "http" /\ r.parse = "malformed" /\ (kind \in {"primary", "removal"} \/ Ok(r))

C13_Caught(r) ==
    /\ cjpc = "returned"
    /\ ret = Result(FALSE, EmptyBody,
                    <<IF r.kind = "throw" THEN FetchFailed ELSE InvalidJson>>)

(* C13, as stated: if any request of a createJiraTicket call (primary,     *)
(* ladder variant or removal retry) raises a transport exception or yields *)
(* a malformed response body, the call returns a failure carrying the      *)
(* exception's message and issues no further request.                      *)
C13_AnyMalformedBodyFails ==
    /\ C13_Faulty(response) => C13_Caught(response) /\ Len(attempts) = 1
    /\ C13_Faulty(retryResponse) => C13_Caught(retryResponse)

(* C13, amended: if any request of a createJiraTicket call raises a        *)
(* transport exception, or yields a malformed body that the call reads     *)
(* (every primary and removal answer, and every accepted ladder variant),  *)
(* the call returns a failure carrying the exception's message, issues no  *)
(* further request and always returns a result.  The body of a rejected    *)
(* ladder variant is not read: a malformed one is a rejection like any     *)
(* other, after which the call goes on.                                    *)
C13_ExceptionCaught ==
    /\ cjpc \in {"idle", "awaitPrimary", "awaitFormat", "awaitRemoval", "returned"}
    /\ (response # NoResponse /\ C13_Raises(response, "primary"))
          => C13_Caught(response) /\ Len(attempts) = 1
    /\ (retryResponse # NoResponse /\ C13_Raises(retryResponse, C13_RetryKind))
          => C13_Caught(retryResponse)
    /\ (retryResponse # NoResponse /\ C13_Faulty(retryResponse)
          /\ ~C13_Raises(retryResponse, C13_RetryKind))
          => /\ C13_RetryKind = "format"
             /\ cjpc = "returned" => Count("format") = 3 /\ ret = RequiredDiagnostic(env, response)

C13_Witness ==
    /\ cjpc = "returned"
    /\ Len(attempts) = 5
    /\ LastKind = "removal"
    /\ retryResponse.kind = "http"
    /\ retryResponse.parse = "malformed"
    /\ ret.errorMessage = <<InvalidJson>>

C13_WitnessVariantThrows ==
    /\ cjpc = "returned"
    /\ Len(attempts) = 3
    /\ LastKind = "format"
    /\ retryResponse.kind = "throw"
    /\ ret.errorMessage = <<FetchFailed>>

\* the fields every payload must carry
C14_CoreFields == {"project", "summary", "issuetype"}

\* the fields the retries may touch
C14_RetryFields == {productField, categoryField} \ {Undefined}

(* C14: every payload submitted by a createJiraTicket call (primary, each  *)
(* ladder variant, removal retry) contains project, summary and issuetype  *)
(* with the values of the primary payload; the retries only replace or     *)
(* remove the configured product and category fields, every other field of *)
(* the primary payload being carried unchanged.                            *)
C14_CoreFieldsKept ==
    \A i \in DOMAIN attempts :
        LET p == attempts[1].payload
            q == attempts[i].payload
        IN  /\ C14_CoreFields \subseteq DOMAIN q
            /\ \A k \in C14_CoreFields : q[k] = p[k]
            /\ DOMAIN p \ C14_RetryFields \subseteq DOMAIN q
            /\ \A k \in DOMAIN p \ C14_RetryFields : q[k] = p[k]
            /\ DOMAIN q \subseteq DOMAIN p \cup C14_RetryFields
            /\ attempts[i].kind = "removal" => DOMAIN q \subseteq DOMAIN p

C14_Witness ==
    /\ Returned
    /\ Len(attempts) = 5
    /\ NamesCategory
    /\ productField \in DOMAIN attempts[1].payload
    /\ categoryField \in DOMAIN attempts[1].payload
    /\ DOMAIN attempts[5].payload = {"project", "summary", "description", "issuetype"}
    /\ attempts[2].payload[productField] # attempts[1].payload[productField]

\* the one-paragraph document holding one text
C15_ParagraphOf(text) ==
    [type    |-> "doc",
     version |-> 1,
     content |-> << [type    |-> "paragraph",
                     content |-> << [type |-> "text", text |-> text] >>] >>]

(* C15: the payload first submitted for the derived Test ticket contains   *)
(* exactly project, summary (the main ticket's key, a space, the original  *)
(* summary), description (the one-paragraph document of the original       *)
(* summary) and issuetype "Test", and no other field, whatever custom      *)
(* fields are configured and whatever the main payload carried.            *)
C15_MinimalTestPayload ==
    (call = "test" /\ attempts # <<>>) =>
        LET p == attempts[1].payload
        IN  /\ attempts[1].kind = "primary"
            /\ DOMAIN p = {"project", "summary", "description", "issuetype"}
            /\ DOMAIN p.project = {"key"}
            /\ p.summary = <<KeyOf(result.data), " ", args.summary>>
            /\ p.description = C15_ParagraphOf(args.summary)
            /\ p.issuetype = [name |-> "Test"]

C15_Witness ==
    /\ call = "test"
    /\ cjpc = "awaitPrimary"
    /\ Len(attempts) = 1
    /\ attempts[1].payload.summary = <<"PROJ-10", " ", "Fix login">>
    /\ productField # Undefined
    /\ categoryField # Undefined

----------------------------------------------------------------------------
\* a text went through formatJiraContent(t, "X") and back
C18_RoundTrip == fmt.built = "paragraph" /\ fmt.flattened

(* C18, as stated: for every text t, the text extracted from               *)
(* formatJiraContent(t, "X"), once trimmed, equals t, or "X" when t is     *)
(* empty or absent.                                                        *)
C18_RoundTripIsIdentity ==
    C18_RoundTrip =>
        fmt.text = (IF fmt.input \in {Undefined, ""} THEN "X" ELSE fmt.input)

\* the characters of t without the whitespace before the first and after
\* the last character that is not whitespace
C18_Stripped(t) ==
    LET cs == Chars(t)
        inked == {i \in DOMAIN cs : cs[i] \notin {" ", "\n"}}
    IN  [i \in 1..Cardinality({j \in DOMAIN cs :
                                  \E a, b \in inked : a <= j /\ j <= b}) |->
            cs[i + Cardinality({j \in DOMAIN cs : \A a \in inked : j < a}) ]]

(* C18, amended: for every text t, the text extracted from                 *)
(* formatJiraContent(t, "X"), once trimmed, equals t without its leading   *)
(* and trailing whitespace, hence t itself when t neither begins nor ends  *)
(* with whitespace, and equals "X" when t is empty or absent.              *)
C18_RoundTripTrims ==
    C18_RoundTrip =>
        IF fmt.input \in {Undefined, ""}
        THEN fmt.text = "X"
        ELSE Chars(fmt.text) = C18_Stripped(fmt.input)

C18_Witness ==
    /\ C18_RoundTrip
    /\ fmt.input = " a-\n"
    /\ fmt.text = "a-"

C18_WitnessIdentity ==
    /\ C18_RoundTrip
    /\ fmt.input = "a-a"
    /\ fmt.text = "a-a"

----------------------------------------------------------------------------
(* The lines of an acceptance-criteria text, read off its characters *)

\* the characters of the text handed to formatAcceptanceCriteria
C19_Chars == IF fmt.input = Undefined THEN <<>> ELSE Chars(fmt.input)

\* the positions of the newlines, with one position before the text and one after
C19_Breaks ==
    {0, Len(C19_Chars) + 1} \cup {i \in DOMAIN C19_Chars : C19_Chars[i] = "\n"}

\* the line that follows break b ends before the next break
C19_NextBreak(b) == CHOOSE c \in C19_Breaks : c > b /\ \A d \in C19_Breaks : d > b => c <= d

\* the positions of the line following break b that hold no whitespace
C19_Ink(b) ==
    {j \in (b + 1)..(C19_NextBreak(b) - 1) : C19_Chars[j] \notin {" ", "\n", "\t", "\r"}}

\* the non-blank lines, each named by the break before it
C19_NonBlank == {b \in C19_Breaks \ {Len(C19_Chars) + 1} : C19_Ink(b) # {}}

\* the place of a non-blank line among the non-blank lines
C19_Rank(b) == Cardinality({c \in C19_NonBlank : c <= b})

\* the first character of the line, and its first character that is not whitespace
C19_FirstChar(b) == C19_Chars[b + 1]

C19_FirstInk(b) == C19_Chars[CHOOSE j \in C19_Ink(b) : \A k \in C19_Ink(b) : j <= k]

C19_Markers == {"-", "*"}

C19_Built == fmt.built = "criteria" /\ fmt.input # Undefined

(* C19, as stated: for every acceptance-criteria string with N non-blank   *)
(* lines the document has exactly N content nodes in line order, the i-th  *)
(* being a bulletList if and only if the i-th non-blank source line began  *)
(* with '-' or '*', and a paragraph otherwise.                             *)
C19_NodePerLineByFirstChar ==
    C19_Built =>
        /\ Len(fmt.doc.content) = Cardinality(C19_NonBlank)
        /\ \A b \in C19_NonBlank :
              fmt.doc.content[C19_Rank(b)].type =
                 (IF C19_FirstChar(b) \in C19_Markers THEN "bulletList" ELSE "paragraph")

(* C19, amended: for every non-empty acceptance-criteria string with N     *)
(* non-blank lines the document has exactly N content nodes in line order, *)
(* the i-th being a bulletList if and only if the i-th non-blank source    *)
(* line, its leading whitespace set aside, began with '-' or '*', and a    *)
(* paragraph otherwise; a paragraph node holds the trimmed line.  (The     *)
(* empty string has no non-blank line and yields the one placeholder       *)
(* node.)                                                                  *)
C19_NodePerLine ==
    (C19_Built /\ fmt.input # "") =>
        /\ Len(fmt.doc.content) = Cardinality(C19_NonBlank)
        /\ \A b \in C19_NonBlank :
              LET node == fmt.doc.content[C19_Rank(b)]
                  ink  == C19_Ink(b)
                  from == CHOOSE j \in ink : \A k \in ink : j <= k
                  to   == CHOOSE j \in ink : \A k \in ink : j >= k
              IN  /\ node.type =
                        (IF C19_FirstInk(b) \in C19_Markers THEN "bulletList"
                                                            ELSE "paragraph")
                  /\ node.type = "paragraph" =>
                        Chars(node.content[1].text) = SubSeq(C19_Chars, from, to)
                  /\ node.type = "bulletList" =>
                        /\ Len(node.content) = 1
                        /\ node.content[1].type = "listItem"

C19_Witness ==
    /\ C19_Built
    /\ fmt.input = " *\na"
    /\ Len(fmt.doc.content) = 2
    /\ fmt.doc.content[1].type = "bulletList"
    /\ fmt.doc.content[2].type = "paragraph"

C19_WitnessBlankLines ==
    /\ C19_Built
    /\ fmt.input = "a\n\n-"
    /\ Len(fmt.doc.content) = 2
    /\ fmt.doc.content[1].type = "paragraph"
    /\ fmt.doc.content[2].type = "bulletList"

----------------------------------------------------------------------------
\* the placeholder document
C20_Placeholder ==
    [type    |-> "doc",
     version |-> 1,
     content |-> << [type    |-> "paragraph",
                     content |-> << [type |-> "text",
                                     text |-> "No acceptance criteria provided"] >>] >>]

\* the text is that line: it has one non-blank line, which read without its
\* surrounding whitespace is the placeholder text
C20_IsThatLine ==
    /\ Cardinality(C19_NonBlank) = 1
    /\ \A b \in C19_NonBlank :
          LET ink == C19_Ink(b)
          IN  SubSeq(C19_Chars, CHOOSE j \in ink : \A k \in ink : j <= k,
                                CHOOSE j \in ink : \A k \in ink : j >= k)
                 = Chars("No acceptance criteria provided")

(* C20: formatAcceptanceCriteria applied to an absent or empty string      *)
(* returns the document whose content is one paragraph holding one text    *)
(* node with the text "No acceptance criteria provided"; for any other     *)
(* input it returns that document only if the input text is that line      *)
(* (its one non-blank line, read without surrounding whitespace).          *)
C20_PlaceholderWhenEmpty ==
    fmt.built = "criteria" =>
        /\ fmt.input \in {Undefined, ""} => fmt.doc = C20_Placeholder
        /\ (fmt.input \notin {Undefined, ""} /\ fmt.doc = C20_Placeholder) => C20_IsThatLine

C20_Witness ==
    /\ fmt.built = "criteria"
    /\ fmt.input = ""
    /\ fmt.doc = C20_Placeholder

C20_WitnessAbsent ==
    /\ fmt.built = "criteria"
    /\ fmt.input = Undefined
    /\ fmt.doc = C20_Placeholder

C20_WitnessThatLine ==
    /\ fmt.built = "criteria"
    /\ fmt.input = "\nNo acceptance criteria provided "
    /\ fmt.doc = C20_Placeholder

----------------------------------------------------------------------------
\* the payload the handler built and submitted first
C16_Payload == attempts[1].payload

\* the configured story-points field
C16_PointsField ==
    IF env.JIRA_STORY_POINTS_FIELD \in {Undefined, ""} THEN "customfield_10040"
                                                         ELSE env.JIRA_STORY_POINTS_FIELD

(* C16: the create-ticket payload sets the configured story-points field   *)
(* to the supplied number and labels to exactly ["QA-Testable"] if and     *)
(* only if story points were supplied and the issue type is exactly        *)
(* "Story"; otherwise it carries neither the points field nor labels.      *)
C16_PointsAndLabel ==
    (pc = "awaitMain" /\ call = "main") =>
        IF args.story_points # <<>> /\ args.issue_type = "Story"
        THEN /\ C16_PointsField \in DOMAIN C16_Payload
             /\ C16_Payload[C16_PointsField] = args.story_points[1]
             /\ "labels" \in DOMAIN C16_Payload
             /\ C16_Payload["labels"] = <<"QA-Testable">>
        ELSE DOMAIN C16_Payload \cap {C16_PointsField, "customfield_10040", "labels"} = {}

C16_Witness ==
    /\ pc = "awaitMain"
    /\ args.issue_type = "Story"
    /\ args.story_points = <<0>>
    /\ env.JIRA_STORY_POINTS_FIELD = "customfield_10016"
    /\ C16_Payload["customfield_10016"] = 0
    /\ C16_Payload["labels"] = <<"QA-Testable">>

C16_WitnessOtherType ==
    /\ pc = "awaitMain"
    /\ args.issue_type = "Bug"
    /\ args.story_points = <<5>>
    /\ "labels" \notin DOMAIN C16_Payload

----------------------------------------------------------------------------
\* an option reference {self, value, id}, in an array or as a bare object
C17_Option(shape, value, id) ==
    [shape |-> shape,
     self  |-> <<"https://", env.JIRA_HOST, "/rest/api/3/customFieldOption/", id>>,
     value |-> value,
     id    |-> id]

C17_Set(v) == v \notin {Undefined, ""}

C17_Standard == args.issue_type \notin {"Epic", "Test"}

\* the category option the boolean flag selects
C17_CategoryId ==
    IF env.USE_ALTERNATE_CATEGORY = "true" THEN env.JIRA_ALTERNATE_CATEGORY_ID
                                           ELSE env.JIRA_DEFAULT_CATEGORY_ID

C17_CategoryValue ==
    IF env.USE_ALTERNATE_CATEGORY = "true" THEN env.JIRA_ALTERNATE_CATEGORY_VALUE
                                           ELSE env.JIRA_DEFAULT_CATEGORY_VALUE

(* C17: the create-ticket payload carries the product field, as a          *)
(* one-element array holding the option reference {self, value, id},       *)
(* exactly when the issue type is standard (not Epic, not Test) and        *)
(* product field, value and ID are all configured; it carries the category *)
(* field, as one option-reference object, exactly when the issue type is   *)
(* standard, the category field is configured and the option ID and value  *)
(* selected by the flag (alternate or default) are both present; payloads  *)
(* for Epic and Test carry neither.                                        *)
C17_ProductAndCategory ==
    (pc = "awaitMain" /\ call = "main") =>
        /\ IF C17_Standard /\ C17_Set(productField) /\ C17_Set(env.JIRA_PRODUCT_VALUE)
                           /\ C17_Set(env.JIRA_PRODUCT_ID)
           THEN /\ productField \in DOMAIN C16_Payload
                /\ C16_Payload[productField] =
                      C17_Option("array", env.JIRA_PRODUCT_VALUE, env.JIRA_PRODUCT_ID)
           ELSE productField \notin DOMAIN C16_Payload
        /\ IF C17_Standard /\ C17_Set(categoryField) /\ C17_Set(C17_CategoryId)
                           /\ C17_Set(C17_CategoryValue)
           THEN /\ categoryField \in DOMAIN C16_Payload
                /\ C16_Payload[categoryField] =
                      C17_Option("object", C17_CategoryValue, C17_CategoryId)
           ELSE categoryField \notin DOMAIN C16_Payload
        /\ ~C17_Standard =>
              {productField, categoryField} \cap DOMAIN C16_Payload = {}

C17_Witness ==
    /\ pc = "awaitMain"
    /\ args.issue_type = "Story"
    /\ env.USE_ALTERNATE_CATEGORY = "true"
    /\ env.JIRA_DEFAULT_CATEGORY_ID = Undefined
    /\ {productField, categoryField} \subseteq DOMAIN C16_Payload
    /\ C16_Payload[categoryField].id = "20002"
    /\ C16_Payload[categoryField].shape = "object"
    /\ C16_Payload[productField].shape = "array"

C17_WitnessEpic ==
    /\ pc = "awaitMain"
    /\ args.issue_type = "Epic"
    /\ C17_Set(productField) /\ C17_Set(env.JIRA_PRODUCT_VALUE) /\ C17_Set(env.JIRA_PRODUCT_ID)
    /\ C17_Set(categoryField)
    /\ productField \notin DOMAIN C16_Payload
    /\ categoryField \notin DOMAIN C16_Payload

----------------------------------------------------------------------------
\* the text the rules give for a node
RECURSIVE C21_Rules(_)
C21_Rules(node) ==
    LET children == IF "content" \in DOMAIN node THEN node.content ELSE <<>>
        flat[i \in 0..Len(children)] ==
            IF i = 0 THEN "" ELSE flat[i - 1] \o C21_Rules(children[i])
        joined == flat[Len(children)]
        type == IF "type" \in DOMAIN node THEN node.type ELSE "none"
    IN  IF node = [missing |-> TRUE] THEN ""
        ELSE IF DOMAIN node = {"string"} THEN node.string
        ELSE IF type = "text" /\ "text" \in DOMAIN node THEN node.text
        ELSE IF "content" \notin DOMAIN node THEN ""
        ELSE IF type \in {"paragraph", "heading"} THEN joined \o "\n"
        ELSE IF type = "listItem" THEN "\\u2022 " \o joined \o "\n"
        ELSE IF type = "codeBlock"
             THEN "\\u0060\\u0060\\u0060\n" \o joined \o "\n\\u0060\\u0060\\u0060\n"
        ELSE joined

(* C21: for every finite ADF tree extractTextFromAdf returns the text the  *)
(* rules give: a text node yields its string; a node with a content        *)
(* sequence yields its children's texts in order, followed by a newline    *)
(* for paragraph and heading, prefixed with the bullet and a space and     *)
(* followed by a newline for listItem, undecorated for the lists and every *)
(* other type, fenced for codeBlock; a missing node yields the empty       *)
(* string, a bare string itself, a node with neither content nor text the  *)
(* empty string.                                                           *)
C21_FlattenByRules ==
    (fmt.built = "received" /\ fmt.flattened) => fmt.raw = C21_Rules(fmt.doc)

C21_Witness ==
    /\ fmt.built = "received"
    /\ fmt.flattened
    /\ fmt.doc = [type |-> "listItem",
                  content |-> << TextNode("b"),
                                 [type |-> "paragraph", content |-> <<TextNode("a")>>],
                                 TextNode("c") >>]
    /\ fmt.raw = "\\u2022 ba\nc\n"

C21_WitnessCodeBlock ==
    /\ fmt.built = "received"
    /\ fmt.flattened
    /\ fmt.doc = [type |-> "codeBlock", content |-> <<[type |-> "hardBreak"]>>]
    /\ fmt.raw = "\\u0060\\u0060\\u0060\n\n\\u0060\\u0060\\u0060\n"

C21_WitnessBareString ==
    /\ fmt.built = "received"
    /\ fmt.flattened
    /\ fmt.doc = [string |-> "a b"]
    /\ fmt.raw = "a b"

----------------------------------------------------------------------------
(* C22 *)

\* the payload object a call of an invocation with locals l was handed
C22_Given(l) ==
    IF l.call = "test" THEN testTicketPayload(env, l.args, KeyOf(l.result.data))
                       ELSE BuildPayload(env, l.args)

\* everything in the locals l of invocation id comes from its own arguments,
\* the configuration and the responses to its own requests
C22_Own(id, l) ==
    /\ l.call # "none" =>
          /\ l.payloadObject = C22_Given(l)
          /\ l.attempts[1].payload = C22_Given(l)
          /\ \A i \in DOMAIN l.attempts :
                /\ l.attempts[i].payload.summary = C22_Given(l).summary
                /\ l.attempts[i].payload.project = C22_Given(l).project
          /\ (l.ret.success /\ Truthy(KeyOf(l.ret.data)))
                => KeyOf(l.ret.data) = PairKeyFor(id, l.call)
    /\ (l.result.success /\ Truthy(KeyOf(l.result.data)))
          => KeyOf(l.result.data) = PairKeyFor(id, "main")
    /\ (l.testResult.success /\ Truthy(KeyOf(l.testResult.data)))
          => KeyOf(l.testResult.data) = PairKeyFor(id, "test")
    /\ l.linkRequest # NoLinkRequest
          => l.linkRequest = LinkPayload(PairKeyFor(id, "main"), PairKeyFor(id, "test"),
                                         "Test Case Linking")
    /\ (l.pc = "done" /\ l.result.success)
          => SubSeq(l.output, 1, 4) =
               <<"Created ticket ", KeyOf(l.result.data), " with summary: ", l.args.summary>>
    /\ (l.pc = "done" /\ ~l.result.success)
          => l.output = MainFailureText(l.args, l.result)

C22_BothOwn ==
    /\ C22_Own(running, Locals)
    /\ C22_Own(parked.id, parked.locals)

\* a step of the running invocation leaves the other invocation's locals
\* and the configuration as they were
C22_Frame == parked'.id = parked.id => (parked' = parked /\ env' = env)

(* C22: when two create-ticket invocations interleave at their awaits, the
   requests and the result of each are built from its own arguments, the
   configuration and the responses to its own requests (its payloads carry
   its own summary and project, its results and its link carry the keys the
   host gave its own tickets, its text names its own ticket); a step of one
   invocation changes neither the other's locals nor the configuration; and
   the payload object a createJiraTicket call was given is the same after
   every retry. *)
C22_Isolated == []C22_BothOwn /\ [][C22_Frame]_vars

\* both invocations have a retry in flight, the second one running
C22_Witness ==
    /\ running = 2
    /\ cjpc = "awaitRemoval"
    /\ parked.locals.cjpc = "awaitFormat"
    /\ Len(parked.locals.attempts) = 3
    /\ payloadObject = BuildPayload(env, args)

\* both invocations have finished, each with its Story, its Test ticket and its link
C22_WitnessBothDone ==
    /\ pc = "done"
    /\ parked.locals.pc = "done"
    /\ issued["link"] = 1
    /\ parked.locals.issued["link"] = 1
    /\ KeyOf(result.data) # KeyOf(parked.locals.result.data)

----------------------------------------------------------------------------
(* C23 *)

\* the updatable fields the invocation supplies, by the field each one sets
C23_Supplied ==
    (IF upd.args.sprint # Undefined THEN {"customfield_10020"} ELSE {})
    \cup (IF upd.args.story_readiness # Undefined THEN {"customfield_10596"} ELSE {})

C23_Started == upd.pc \in {"awaitUpdate", "done"}

\* the request carries the supplied fields with the supplied values, and no other
C23_Carries(request) ==
    /\ request.ticket_key = upd.args.ticket_key
    /\ DOMAIN request.payload.fields = C23_Supplied
    /\ upd.args.sprint # Undefined
          => request.payload.fields["customfield_10020"] = <<[name |-> upd.args.sprint]>>
    /\ upd.args.story_readiness # Undefined
          => /\ request.payload.fields["customfield_10596"].value = upd.args.story_readiness
             /\ request.payload.fields["customfield_10596"].id
                   = (IF upd.args.story_readiness = "Yes" THEN "18256" ELSE "18257")

(* C23: an update-ticket invocation that supplies neither sprint nor
   story_readiness ends with the error text and without an update request;
   one that supplies at least one of them issues exactly one update request,
   for its ticket, whose fields are exactly the supplied ones with the
   supplied values. *)
C23_UpdateOnlySupplied ==
    C23_Started =>
        IF C23_Supplied = {}
        THEN /\ upd.requests = <<>>
             /\ upd.pc = "done"
             /\ upd.output = NothingToUpdateText
        ELSE /\ Len(upd.requests) = 1
             /\ C23_Carries(upd.requests[1])
             /\ upd.output # NothingToUpdateText

\* both fields supplied, the request answered
C23_Witness ==
    /\ upd.pc = "done"
    /\ upd.args.sprint = "Sprint 1"
    /\ upd.args.story_readiness = "No"
    /\ Len(upd.requests) = 1
    /\ DOMAIN upd.requests[1].payload.fields = {"customfield_10020", "customfield_10596"}
    /\ upd.output = <<"Successfully updated ticket ", upd.args.ticket_key,
                      ", sprint: ", "Sprint 1", ", story readiness: ", "No">>

\* nothing supplied: the error, and no request
C23_WitnessNothing ==
    /\ upd.pc = "done"
    /\ upd.args.sprint = Undefined
    /\ upd.args.story_readiness = Undefined
    /\ upd.requests = <<>>
    /\ upd.output = NothingToUpdateText

----------------------------------------------------------------------------
(* C24 *)

\* a setting's value, or the documented default when it is not set
C24_Setting(value, default) == IF C17_Set(value) THEN value ELSE default

C24_Field == C24_Setting(env.JIRA_CRISIS_FIELD, "customfield_10597")

C24_Id ==
    IF args.crisis = "Yes" THEN C24_Setting(env.JIRA_CRISIS_YES_ID, "18258")
                           ELSE C24_Setting(env.JIRA_CRISIS_NO_ID, "18259")

(* C24: when a crisis flag is supplied, the payload of the main ticket
   holds an option reference under the configured crisis field, or under
   customfield_10597 when none is configured, whose ID is the configured ID
   for the flag, or 18258 for "Yes" and 18259 for "No" when none is
   configured. *)
C24_CrisisDefaults ==
    (pc = "awaitMain" /\ args.crisis # Undefined) =>
        /\ C24_Field \in DOMAIN C16_Payload
        /\ C16_Payload[C24_Field].id = C24_Id
        /\ C16_Payload[C24_Field].value = args.crisis

----------------------------------------------------------------------------
(* The create-ticket invocation under fair scheduling: every request that  *)
(* is awaited is eventually answered (or fetch rejects), and the event     *)
(* loop eventually runs every continuation that is ready.                  *)

Fairness ==
    /\ WF_vars(HandlerStart)
    /\ WF_vars(\E r \in Responses(call) : PrimaryResponse(r))
    /\ WF_vars(\E r \in FormatResponses(call) : FormatResponse(r))
    /\ WF_vars(\E r \in Responses(call) : RemovalResponse(r))
    /\ WF_vars(MainCreated)
    /\ WF_vars(TestCreated)
    /\ WF_vars(\E r \in LinkResponses : LinkResponse(r))

SpecLive == Init /\ [][Next]_vars /\ Fairness

----------------------------------------------------------------------------
(* C25 *)

C25_Returned == pc = "done" /\ output # NoOutput

C25_Bounded ==
    /\ issued["main"] <= 5
    /\ issued["test"] <= 5
    /\ issued["link"] <= 1

\* once returned, the invocation neither issues a request nor changes its text
C25_ReturnsOnce ==
    pc = "done" => (pc' = "done" /\ output' = output /\ issued' = issued)

(* C25: if every awaited request is eventually answered or raises, the
   create-ticket invocation eventually returns a text, and returns only
   once; it issues at most five requests for the main ticket, at most five
   for the Test ticket and at most one link request, eleven in all. *)
C25_Terminates == <>C25_Returned /\ []C25_Bounded /\ [][C25_ReturnsOnce]_vars

\* the invocation has returned after eleven requests
C25_Witness ==
    /\ C25_Returned
    /\ issued = [main |-> 5, test |-> 5, link |-> 1]

----------------------------------------------------------------------------
(* C26 *)

(* C26: every request that creates the derived Test ticket names the
   project the payload of the primary Story names, also when the caller
   supplies project_key. *)
C26_SameProject ==
    call = "test" =>
        \A i \in DOMAIN attempts :
            attempts[i].payload.project = BuildPayload(env, args).project

----------------------------------------------------------------------------
(* C27 *)

\* the fields JIRA itself defines, which the Test-ticket payload is built from
C27_SystemFields == {"project", "summary", "description", "issuetype"}

(* C27: every request issued to create the derived Test ticket, the
   primary one and every retry, carries only system fields: no custom
   field, and so not the configured product field. *)
C27_NoCustomField ==
    call = "test" =>
        \A i \in DOMAIN attempts : DOMAIN attempts[i].payload \subseteq C27_SystemFields

----------------------------------------------------------------------------
(* C28 *)

\* a required product error under a configuration that lacks the product
\* value or the product ID
C28_RequiredUnconfigured ==
    /\ Returned
    /\ RequiredFlavored
    /\ ~ProductConfigured

(* C28: when the primary response is HTTP 400 with a required-flavored
   product-field error and the product value or the product ID is not
   configured, the call has issued the primary request only (no alternative
   format, no removal retry, even when the category field is among the
   errors) and returns the required-field diagnostic: a failure with the
   primary response's body whose message starts "Required field validation
   failed: " followed by the product field's error message. *)
C28_DiagnosticWithoutRetry ==
    C28_RequiredUnconfigured =>
        /\ Len(attempts) = 1
        /\ attempts[1].kind = "primary"
        /\ ~ret.success
        /\ ret.data = response.data
        /\ SubSeq(ret.errorMessage, 1, 2) =
              <<"Required field validation failed: ", response.data.errors[productField]>>

\* the product ID is missing and the category field is among the errors
C28_Witness ==
    /\ C28_RequiredUnconfigured
    /\ NamesCategory
    /\ env.JIRA_PRODUCT_VALUE # Undefined
    /\ env.JIRA_PRODUCT_ID = Undefined

----------------------------------------------------------------------------
(* C29 *)

\* the transitions the host listed for the ticket, once they were fetched
C29_Listed == transitionsOf(trn.transitionsResult)

C29_Fetched == trn.pc \in {"awaitTransition", "done"}

\* an argument counts as supplied when it is present and not empty, a flag
\* as set when it is true: the handler tests the arguments for truthiness
C29_ById == trn.args.transition_id \notin {Undefined, ""}

C29_ByName == trn.args.transition_name \notin {Undefined, ""}

C29_ListOnly == trn.args.list_transitions = <<TRUE>>

\* the positions of the list that the invocation's selector matches
C29_Matches ==
    IF C29_ById
    THEN {i \in DOMAIN C29_Listed : C29_Listed[i].id = trn.args.transition_id}
    ELSE IF C29_ByName
    THEN {i \in DOMAIN C29_Listed :
             toLowerCase(Chars(C29_Listed[i].name))
                = toLowerCase(Chars(trn.args.transition_name))}
    ELSE {}

C29_Error == trn.output # NoOutput /\ SubSeq(Chars(trn.output[1]), 1, 5) = Chars("Error")

(* C29: a transition-ticket invocation issues at most one transition
   request, only after the ticket's transitions were fetched, and only for a
   transition of the fetched list.  With list_transitions set it issues
   none.  Otherwise it picks by transition_id when one is supplied, whatever
   transition_name is, else by transition_name compared without regard to
   case, taking the first match of the list.  If neither is supplied, if
   nothing matches or if the fetch failed, it returns an error text and
   issues no transition request. *)
C29_TransitionFromList ==
    /\ ~C29_Fetched => trn.requests = <<>>
    /\ C29_Fetched =>
          IF trn.transitionsResult.success /\ ~C29_ListOnly /\ C29_Matches # {}
          THEN /\ Len(trn.requests) = 1
               /\ trn.requests[1].ticket_key = trn.args.ticket_key
               /\ \E i \in C29_Matches :
                     /\ \A j \in C29_Matches : i <= j
                     /\ trn.requests[1].id = C29_Listed[i].id
          ELSE /\ trn.requests = <<>>
               /\ trn.pc = "done"
               /\ (~trn.transitionsResult.success \/ ~C29_ListOnly) => C29_Error
               /\ (trn.transitionsResult.success /\ C29_ListOnly) => ~C29_Error

\* picked by ID although a name that matches another entry is supplied too
C29_Witness ==
    /\ trn.pc = "done"
    /\ trn.args.transition_id = "31"
    /\ trn.args.transition_name = "done"
    /\ Len(C29_Listed) = 3
    /\ Len(trn.requests) = 1
    /\ trn.requests[1].id = "31"
    /\ trn.output[1] = "Successfully transitioned "

\* picked by name, without regard to case: the first match of the list
C29_WitnessByName ==
    /\ trn.pc = "awaitTransition"
    /\ ~C29_ById
    /\ trn.args.transition_name = "done"
    /\ Len(C29_Listed) = 1
    /\ trn.requests[1].id = "31"

\* nothing matches: an error and no request
C29_WitnessNoMatch ==
    /\ trn.pc = "done"
    /\ trn.args.transition_id = "99"
    /\ trn.args.transition_name = "done"
    /\ Len(C29_Listed) = 3
    /\ trn.requests = <<>>
    /\ C29_Error

----------------------------------------------------------------------------
(* C30 *)

C30_Steps == zts.args.steps

\* the ticket's internal ID and its project ID were both obtained
C30_Identified ==
    /\ zts.idResult.success
    /\ zts.idResult.id \notin {Undefined, ""}
    /\ zts.idResult.projectId \notin {Undefined, ""}

C30_AllSuccessText == zts.output # NoOutput /\ zts.output[1] = "Successfully added "

\* the line reported for step i tells the outcome of step i
C30_LineOf(i) ==
    /\ SubSeq(zts.results[i], 1, 2) = <<"Step ", ToString(i)>>
    /\ zts.results[i][3] = (IF zts.stepResults[i].success THEN ": Added successfully"
                                                          ELSE ": Failed - ")

(* C30: an add-test-steps invocation submits the steps in input order, one
   at a time: the k-th request carries the k-th step, and a request is only
   issued when every earlier one has been answered.  A failed step does not
   stop it: once it has returned with the IDs obtained, it has submitted
   every step, its results hold one line per step, in order, each telling
   that step's outcome, its text is made of these lines, and the text is the
   all-success message exactly when every step succeeded.  When the
   internal ID or the project ID cannot be obtained it returns an error and
   submits no step. *)
C30_StepsInOrder ==
    /\ Len(zts.submitted) <= Len(C30_Steps)
    /\ \A k \in DOMAIN zts.submitted :
          /\ zts.submitted[k].step = C30_Steps[k].step
          /\ zts.submitted[k].issueId = zts.idResult.id
          /\ zts.submitted[k].projectId = zts.idResult.projectId
    /\ Len(zts.stepResults) = Len(zts.results)
    /\ zts.pc = "awaitStep" => Len(zts.submitted) = Len(zts.stepResults) + 1
    /\ zts.pc # "awaitStep" => Len(zts.submitted) = Len(zts.stepResults)
    /\ \A i \in DOMAIN zts.results : C30_LineOf(i)
    /\ (zts.pc = "done" /\ C30_Identified) =>
          /\ Len(zts.submitted) = Len(C30_Steps)
          /\ Len(zts.results) = Len(C30_Steps)
          /\ SubSeq(zts.output, 6 - (IF C30_AllSuccessText THEN 0 ELSE 2), Len(zts.output))
                = JoinLines(zts.results)
          /\ C30_AllSuccessText <=> \A i \in DOMAIN zts.stepResults : zts.stepResults[i].success
    /\ (zts.pc = "done" /\ ~C30_Identified) =>
          /\ zts.submitted = <<>>
          /\ SubSeq(Chars(zts.output[1]), 1, 5) = Chars("Error")

\* three steps, the first one failed, the others added
C30_Witness ==
    /\ zts.pc = "done"
    /\ Len(C30_Steps) = 3
    /\ Len(zts.submitted) = 3
    /\ ~zts.stepResults[1].success
    /\ zts.stepResults[2].success
    /\ zts.stepResults[3].success
    /\ zts.output[1] = "Some test steps could not be added to ticket "

\* every step added
C30_WitnessAllAdded ==
    /\ zts.pc = "done"
    /\ Len(C30_Steps) = 3
    /\ C30_AllSuccessText
    /\ Len(zts.results) = 3

\* the project ID is missing: an error, and no step submitted
C30_WitnessNoProject ==
    /\ zts.pc = "done"
    /\ zts.idResult.success
    /\ zts.idResult.projectId = Undefined
    /\ zts.submitted = <<>>
    /\ zts.output[1] = "Error: Project ID not found for ticket "

====
